---------------------------- MODULE Spec2Model ----------------------------
(***************************************************************************)
(* LogRescuer: a deduplicating, compressing directory archiver.            *)
(*                                                                         *)
(* The model follows src/src/FileCompressor.cpp (compress / decompress and *)
(* their parallel phases), src/src/IO.cpp with src/include/FileMeta.h (the *)
(* metadata section and the footer), src/include/ThreadPool.inl            *)
(* (parallelFor) and the three stream codecs.                              *)
(*                                                                         *)
(* A stream (archive, metadata file) is a sequence of integers, one per    *)
(* written item: a fixed-width value is one item, a string is its length   *)
(* followed by one item per character, a codec frame is a head marker, one *)
(* item per content byte and an end marker.  Stream positions (tellp,      *)
(* seekg, dataOffset) count items from 0.                                  *)
(***************************************************************************)
EXTENDS Integers, Sequences, FiniteSets, TLC

(***************************************************************************)
(* Bounds of the model.                                                    *)
(***************************************************************************)
NPaths == 3
MaxThreads == 2
MaxByte == 2
MaxRecs == 2
MaxJobs == 2

(***************************************************************************)
(* compression::CompressionType with every codec compiled in.              *)
(***************************************************************************)
BROTLI == 0
ZSTD == 1
ZLIB == 2
NONE == 3

Codecs == {BROTLI, ZSTD, ZLIB}

(***************************************************************************)
(* Generic helpers.                                                        *)
(***************************************************************************)
RECURSIVE Flatten(_)
Flatten(ss) ==
    IF ss = <<>> THEN <<>> ELSE Head(ss) \o Flatten(Tail(ss))

Min(a, b) == IF a < b THEN a ELSE b

Range(s) == {s[i] : i \in 1..Len(s)}

(***************************************************************************)
(* meta::FileMeta                                                          *)
(***************************************************************************)
FileMeta(off, h, p) == [dataOffset |-> off, hash |-> h, relativePath |-> p]

IsOriginalBySize(m) == m.compressedSize > 0

\* A classification by payload size instead of by offset.
isOriginalIfCompressed(m) == m.compressedSize > 0

isOriginal(m) == m.dataOffset >= 0

isDuplicate(m) == m.dataOffset < 0

(***************************************************************************)
(* io:: serialisation (IO.h templates, IO.cpp)                             *)
(***************************************************************************)
\* write<T>: a fixed-width value is one item of the stream.
WritePOD(v) == <<v>>

\* write(stream, string): the length, then the characters.
WriteString(str) == WritePOD(Len(str)) \o str

\* write(archive, FileMeta)
\* A record written with its two strings in the other order.
WriteMetaSwapped(m) ==
    WritePOD(m.dataOffset) \o WriteString(m.relativePath) \o WriteString(m.hash)

WriteMeta(m) ==
    WritePOD(m.dataOffset) \o WriteString(m.hash) \o WriteString(m.relativePath)

\* A short form that holds the offset and the path and no digest.
WriteDuplicateOffsetPath(m) == WritePOD(m.dataOffset) \o WriteString(m.relativePath)

\* The short form writeMetadata gives a duplicate.
WriteDuplicate(m) == WriteString(m.hash) \o WriteString(m.relativePath)

WriteFooter(compType, metaOffset, metaCount) ==
    WritePOD(compType) \o WritePOD(metaOffset) \o WritePOD(metaCount)

\* sizeof(uint64_t) * 2 + sizeof(CompressionType), in items.
FooterSize == Len(WriteFooter(0, 0, 0))

OriginalsOf(metadata) == SelectSeq(metadata, isOriginal)

DuplicatesOf(metadata) ==
    SelectSeq(metadata, LAMBDA m : ~isOriginal(m) /\ isDuplicate(m))

\* writeMetadata appends the metadata section and the footer to the stream.
WriteMetadata(stream, metadata, compType) ==
    LET metaOffset == Len(stream)
        originalFiles == OriginalsOf(metadata)
        duplicateFiles == DuplicatesOf(metadata)
    IN  stream
          \o WritePOD(Len(originalFiles))
          \o Flatten([i \in 1..Len(originalFiles) |-> WriteMeta(originalFiles[i])])
          \o WritePOD(Len(duplicateFiles))
          \o Flatten([i \in 1..Len(duplicateFiles) |-> WriteDuplicate(duplicateFiles[i])])
          \o WriteFooter(compType, metaOffset, Len(metadata))

\* A read that fails throws: ok = FALSE.
ReadFail == [ok |-> FALSE, val |-> 0, pos |-> 0]

\* read<T>: checkErrors / checkReadSize throw when the item is not there.
ReadPOD(s, pos) ==
    IF pos < 0 \/ pos + 1 > Len(s) THEN ReadFail
    ELSE [ok |-> TRUE, val |-> s[pos + 1], pos |-> pos + 1]

\* read(stream, string)
ReadString(s, pos) ==
    LET n == ReadPOD(s, pos)
    IN  IF ~n.ok THEN ReadFail
        ELSE IF n.val < 0 \/ n.pos + n.val > Len(s) THEN ReadFail
        ELSE [ok |-> TRUE, val |-> SubSeq(s, n.pos + 1, n.pos + n.val),
              pos |-> n.pos + n.val]

\* readFooter: seek to end - footerSize, then the three fields.
ReadFooter(s) ==
    LET c == ReadPOD(s, Len(s) - FooterSize)
        o == ReadPOD(s, c.pos)
        n == ReadPOD(s, o.pos)
    IN  IF Len(s) < FooterSize \/ ~c.ok \/ ~o.ok \/ ~n.ok
        THEN [ok |-> FALSE, compType |-> NONE, metaOffset |-> 0, metaCount |-> 0]
        ELSE [ok |-> TRUE, compType |-> c.val, metaOffset |-> o.val,
              metaCount |-> n.val]

\* The loop of readMetadata over the originals: n full records from pos.
RECURSIVE ReadOriginals(_, _, _, _)
ReadOriginals(s, pos, n, acc) ==
    IF n <= 0 THEN [ok |-> TRUE, val |-> acc, pos |-> pos]
    ELSE LET o == ReadPOD(s, pos)
             h == ReadString(s, o.pos)
             p == ReadString(s, h.pos)
         IN  IF ~o.ok \/ ~h.ok \/ ~p.ok THEN ReadFail
             ELSE ReadOriginals(s, p.pos, n - 1,
                                Append(acc, FileMeta(o.val, h.val, p.val)))

\* The loop of readMetadata over the duplicates: n short records from pos.
RECURSIVE ReadDuplicates(_, _, _, _)
ReadDuplicates(s, pos, n, acc) ==
    IF n <= 0 THEN [ok |-> TRUE, val |-> acc, pos |-> pos]
    ELSE LET h == ReadString(s, pos)
             p == ReadString(s, h.pos)
         IN  IF ~h.ok \/ ~p.ok THEN ReadFail
             ELSE ReadDuplicates(s, p.pos, n - 1,
                                 Append(acc, FileMeta(-1, h.val, p.val)))

\* the arguments of a footer not written yet
NoFooter == [compType |-> NONE, uniqueCount |-> 0, duplicateCount |-> 0, metaOffset |-> 0]

MetaFail == [ok |-> FALSE, compType |-> NONE, metadata |-> <<>>]

\* readMetadata: footer, seek to metaOffset, the originals, the duplicates.
ReadMetadata(s) ==
    LET f == ReadFooter(s)
        oc == ReadPOD(s, f.metaOffset)
        os == ReadOriginals(s, oc.pos, oc.val, <<>>)
        dc == ReadPOD(s, os.pos)
        ds == ReadDuplicates(s, dc.pos, dc.val, os.val)
    IN  IF ~f.ok THEN MetaFail
        ELSE IF ~oc.ok THEN MetaFail
        ELSE IF ~os.ok THEN MetaFail
        ELSE IF ~dc.ok THEN MetaFail
        ELSE IF ~ds.ok THEN MetaFail
        ELSE [ok |-> TRUE, compType |-> f.compType, metadata |-> ds.val]

(***************************************************************************)
(* File contents, digests and the stream codecs.                           *)
(***************************************************************************)
MaxSize == 1

\* The contents a file can have: byte strings of length 0..MaxSize.
Contents == UNION {[1..n -> 1..MaxByte] : n \in 0..MaxSize}

\* hashutils::computeSHA256FromFile: a hex string, never empty, that differs
\* for different contents (SHA-256 taken as collision free).
computeSHA256(content) == <<9>> \o content

\* Markers of a codec frame in the stream.
FrameHead == 200
FrameEnd == 201
DataBase == 100

\* compressStream: reads the input to its end and emits one finished frame.
compressStream(content) ==
    <<FrameHead>> \o [i \in 1..Len(content) |-> DataBase + content[i]]
                  \o <<FrameEnd>>

IsData(a) == a > DataBase /\ a < FrameHead

\* ZlibCompressor / BrotliCompressor::decompressStream: decode from pos until
\* the end of the frame.  ok = FALSE is a thrown error; out is what was
\* written to the output so far.  At the end of the input zlib returns what
\* it has, brotli throws "Unexpected end of compressed stream".
RECURSIVE DecodeOneFrame(_, _, _, _, _)
DecodeOneFrame(s, pos, started, out, eofThrows) ==
    IF pos >= Len(s) THEN [ok |-> ~eofThrows, out |-> out]
    ELSE LET a == s[pos + 1]
         IN  IF ~started
             THEN IF a = FrameHead
                  THEN DecodeOneFrame(s, pos + 1, TRUE, out, eofThrows)
                  ELSE [ok |-> FALSE, out |-> out]
             ELSE IF a = FrameEnd THEN [ok |-> TRUE, out |-> out]
             ELSE IF IsData(a)
                  THEN DecodeOneFrame(s, pos + 1, TRUE, Append(out, a - DataBase),
                                      eofThrows)
                  ELSE [ok |-> FALSE, out |-> out]

\* ZSTD_DStreamInSize(), the input buffer of the zstd decoder, in items.
ZstdInSize == 28

\* ZStandardCompressor::decompressStream.  The outer loop reads the input in
\* buffers of ZstdInSize and runs while the stream is good; at the end of a
\* frame the inner loop breaks, dropping the rest of that buffer, and the
\* outer loop goes on with the next buffer unless the last read was short.
\* st: "init" before a frame, "data" inside one, "skip" after the break.
RECURSIVE ZstdDecode(_, _, _, _, _, _)
ZstdDecode(s, pos, bufEnd, good, st, out) ==
    IF pos >= bufEnd
    THEN IF ~good THEN [ok |-> TRUE, out |-> out]
         ELSE LET n == Min(ZstdInSize, Len(s) - pos)
              IN  IF n <= 0 THEN [ok |-> TRUE, out |-> out]
                  ELSE ZstdDecode(s, pos, pos + n, n = ZstdInSize,
                                  IF st = "skip" THEN "init" ELSE st, out)
    ELSE LET a == s[pos + 1]
         IN  CASE st = "skip" -> ZstdDecode(s, bufEnd, bufEnd, good, st, out)
               [] st = "init" ->
                    IF a = FrameHead
                    THEN ZstdDecode(s, pos + 1, bufEnd, good, "data", out)
                    ELSE [ok |-> FALSE, out |-> out]
               [] OTHER ->
                    IF a = FrameEnd
                    THEN ZstdDecode(s, pos + 1, bufEnd, good, "skip", out)
                    ELSE IF IsData(a)
                    THEN ZstdDecode(s, pos + 1, bufEnd, good, "data",
                                    Append(out, a - DataBase))
                    ELSE [ok |-> FALSE, out |-> out]

ZstdDecompressStream(s, pos) == ZstdDecode(s, pos, pos, TRUE, "init", <<>>)

\* Compressor::decompressStream of the codec createCompressor(compType) gives.
decompressStream(codec, s, pos) ==
    CASE codec = ZSTD -> ZstdDecompressStream(s, pos)
      [] codec = ZLIB -> DecodeOneFrame(s, pos, FALSE, <<>>, FALSE)
      [] OTHER -> DecodeOneFrame(s, pos, FALSE, <<>>, TRUE)

(***************************************************************************)
(* State.                                                                  *)
(***************************************************************************)
VARIABLES
    fs,              \* the input tree: path -> content
    compType,        \* the codec given to compress
    numThreads,      \* threads.size() of the pool
    hw,              \* std::thread::hardware_concurrency() of the platform
    gone,            \* the input files that vanish once they have been hashed
    pc,              \* where the orchestrator (compress, then decompress) is
    filePaths,       \* result of io::scanDirectory
    pathToHashMap,   \* computeHashes: relative path -> digest
    hashToPathMap,   \* computeHashes: digest -> first relative path stored
    uniqueFiles,     \* FileGroup::uniqueFiles
    duplicateFiles,  \* FileGroup::duplicateFiles
    archive,         \* the archive file
    mutex,           \* holder of each std::mutex, 0 when free
    hashToOffsetMap, \* processFiles: digest -> offset
    metadata,        \* processFiles: the metadata vector
    nextIndex,       \* parallelFor: the shared atomic counter
    calls,           \* parallelFor: how often func was called with each index
    task,            \* parallelFor: the worker tasks and their locals
    workItems,       \* decompressFiles: the hash groups
    rpos,            \* read position of the shared archive stream
    out,             \* the output directory: relative path -> content
    outDir,          \* whether the output directory exists
    begun, ended,    \* decompress: the files whose materialising has begun, has ended
    ioIn, ioCodec, ioStream, ioOut, ioPc,  \* a metadata file written and read
    ftIn, ftOut,                           \* a footer written and read
    stop,            \* ThreadPool::stop
    tasks,           \* ThreadPool::tasks, the queue of pending jobs
    queueMutex,      \* who holds ThreadPool::queueMutex
    threads,         \* ThreadPool::threads: where each worker thread is
    running,         \* the job each worker thread has taken from the queue
    activeThreads,   \* ThreadPool::activeThreads
    futures,         \* what became of each job given to enqueue
    caller,          \* the thread that calls enqueue
    dtor,            \* the thread that destroys the pool
    wBuild, rBuild,  \* the codecs compiled into the build that writes, that reads
    bCodec,          \* the codec the writing build compresses with
    bId,             \* the CompressionType value the archive carries
    bMade,           \* what createCompressor gave the reading build
    bPc,             \* where the two builds are
    trFiles,         \* a directory given to compress: its files in scan order
    trCodec,         \* the codec given to that compress
    trCreate,        \* whether the output archive can be created
    trOpen,          \* whether the archive can be opened for reading
    trImage,         \* the archive file, byte by byte
    trDamage,        \* what happened to the archive after compress
    trErr,           \* the error that left the last call, "none" if it returned
    trPc,            \* where compress and decompress of that directory are
    trOutDir,        \* whether decompress has created the output directory
    rdHeld,          \* the bytes an input stream still holds
    rdBits,          \* the state bits of that stream
    rdDevice,        \* whether the device fails during the next read
    rdCall,          \* the io:: read that was called, and the size it asked for
    rdCount,         \* stream.gcount() after the call
    rdErr,           \* the error that left the read, "none" if it returned
    giInstance,      \* ThreadPool::instance
    giMutex,         \* who holds ThreadPool::instanceMutex, 0 when free
    giBuilt,         \* how many pools were constructed
    giCall           \* the threads that call getInstance

vars == <<fs, compType, numThreads, hw, gone, pc, filePaths, pathToHashMap, hashToPathMap,
          uniqueFiles, duplicateFiles, archive, mutex, hashToOffsetMap, metadata,
          nextIndex, calls, task, workItems, rpos, out, outDir, begun, ended,
          ioIn, ioCodec, ioStream, ioOut, ioPc, ftIn, ftOut,
          stop, tasks, queueMutex, threads, running, activeThreads, futures,
          caller, dtor, wBuild, rBuild, bCodec, bId, bMade, bPc,
          trFiles, trCodec, trCreate, trOpen, trImage, trDamage, trErr, trPc,
          trOutDir, rdHeld, rdBits, rdDevice, rdCall, rdCount, rdErr,
          giInstance, giMutex, giBuilt, giCall>>

inputVars == <<fs, compType, numThreads, hw, gone>>
hashVars == <<filePaths, pathToHashMap, hashToPathMap>>
groupVars == <<uniqueFiles, duplicateFiles>>
writeVars == <<archive, hashToOffsetMap, metadata>>
readVars == <<workItems, rpos, out, outDir, begun, ended>>
ioVars == <<ioIn, ioCodec, ioStream, ioOut, ioPc, ftIn, ftOut>>
poolVars == <<stop, tasks, queueMutex, threads, running, activeThreads, futures,
              caller, dtor>>
buildVars == <<wBuild, rBuild, bCodec, bId, bMade, bPc>>
trVars == <<trFiles, trCodec, trCreate, trOpen, trImage, trDamage, trErr, trPc,
            trOutDir>>
rdVars == <<rdHeld, rdBits, rdDevice, rdCall, rdCount, rdErr>>
giVars == <<giInstance, giMutex, giBuilt, giCall>>
auxVars == <<trVars, rdVars, giVars>>

Paths == 1..NPaths
Tasks == 1..MaxThreads
Jobs == 1..MaxJobs

\* std::filesystem::relative(filePath, rootPath).string()
RelPath(p) == <<64 + p>>

file_size(p) == Len(fs[p])

Mutexes == {"hashMap", "archive", "hashOffset", "metadata"}

Idle == [pc |-> "none", index |-> 0, off |-> 0, size |-> 0, todo |-> <<>>, j |-> 0]

\* a function with one more key (or one key rebound)
Put(f, k, v) == (k :> v) @@ f

\* No pool is under observation.
PoolOff ==
    /\ stop = FALSE
    /\ tasks = <<>>
    /\ queueMutex = "free"
    /\ threads = [w \in Tasks |-> "off"]
    /\ running = [w \in Tasks |-> 0]
    /\ activeThreads = 0
    /\ futures = [j \in Jobs |-> "none"]
    /\ caller = [pc |-> "off", job |-> 0]
    /\ dtor = [pc |-> "off", joined |-> 0]

\* createCompressor threw std::runtime_error.
Unsupported == [ok |-> FALSE, codec |-> NONE]

\* No pair of builds is under observation.
BuildOff ==
    /\ wBuild = Codecs /\ rBuild = Codecs
    /\ bCodec = NONE /\ bId = NONE
    /\ bMade = Unsupported
    /\ bPc = "off"

\* No byte image of an archive and no stream read is under observation.
AuxOff ==
    /\ gone = {}
    /\ trFiles = <<>> /\ trCodec = NONE
    /\ trCreate = TRUE /\ trOpen = TRUE
    /\ trImage = <<>> /\ trDamage = "none" /\ trErr = "none" /\ trPc = "off"
    /\ trOutDir = FALSE
    /\ giInstance = [made |-> FALSE, threadCount |-> 0] /\ giMutex = 0
    /\ giBuilt = 0 /\ giCall = <<>>
    /\ rdHeld = 0 /\ rdBits = {} /\ rdDevice = FALSE
    /\ rdCall = [op |-> "none", size |-> 0, held |-> 0, bits |-> {}, device |-> FALSE]
    /\ rdCount = 0 /\ rdErr = "none"

Init ==
    /\ fs \in [Paths -> Contents]
    /\ compType \in Codecs
    /\ numThreads \in 1..MaxThreads
    /\ hw = numThreads + 1
    /\ pc = "start"
    /\ filePaths = <<>>
    /\ pathToHashMap = <<>>
    /\ hashToPathMap = <<>>
    /\ uniqueFiles = <<>>
    /\ duplicateFiles = <<>>
    /\ archive = <<>>
    /\ mutex = [m \in Mutexes |-> 0]
    /\ hashToOffsetMap = <<>>
    /\ metadata = <<>>
    /\ nextIndex = 0
    /\ calls = <<>>
    /\ task = [w \in Tasks |-> Idle]
    /\ workItems = <<>>
    /\ rpos = 0
    /\ out = <<>>
    /\ outDir = FALSE
    /\ begun = {} /\ ended = {}
    /\ ioIn = <<>> /\ ioCodec = NONE /\ ioStream = <<>> /\ ioOut = MetaFail
    /\ ioPc = "off"
    /\ ftIn = NoFooter /\ ftOut = ReadFooter(<<>>)
    /\ PoolOff
    /\ BuildOff
    /\ AuxOff

(***************************************************************************)
(* ThreadPool::parallelFor                                                 *)
(***************************************************************************)
\* No index of a sequence of n items has been passed to func yet.
NoCalls(n) == [i \in 1..n |-> 0]

\* One task is enqueued per pool thread; nextIndex starts at 0.
parallelForStart == [w \in Tasks |-> IF w <= numThreads
                                     THEN [Idle EXCEPT !.pc = "fetch"]
                                     ELSE Idle]

\* future.wait() on every task has returned.
parallelForDone == \A w \in Tasks : task[w].pc \in {"none", "end"}

\* totalSize of the parallelFor that is running
totalSize ==
    CASE pc = "hashing" -> Len(filePaths)
      [] pc = "unique" -> Len(uniqueFiles)
      [] pc = "duplicates" -> Len(duplicateFiles)
      [] pc = "extracting" -> Len(workItems)
      [] OTHER -> 0

\* first step of func in the parallelFor that is running
bodyPc ==
    CASE pc = "hashing" -> "h_hash"
      [] pc = "unique" -> "u_begin"
      [] pc = "duplicates" -> "d_begin"
      [] pc = "extracting" -> "x_item"
      [] OTHER -> "end"

\* index = nextIndex.fetch_add(1); if (index >= totalSize) break; else func
\* is entered with the item at index.
Fetch(w) ==
    /\ task[w].pc = "fetch"
    /\ nextIndex' = nextIndex + 1
    /\ calls' = IF nextIndex >= totalSize THEN calls
                ELSE [calls EXCEPT ![nextIndex + 1] = @ + 1]
    /\ task' = [task EXCEPT ![w] =
                  IF nextIndex >= totalSize
                  THEN [Idle EXCEPT !.pc = "end"]
                  ELSE [Idle EXCEPT !.pc = bodyPc, !.index = nextIndex, !.j = 1]]
    /\ UNCHANGED <<inputVars, pc, hashVars, groupVars, writeVars, mutex,
                   readVars, ioVars, poolVars, buildVars, auxVars>>

\* func returns normally: the task's loop takes the next index
Return(w) == [task EXCEPT ![w] = [Idle EXCEPT !.pc = "fetch"]]

\* An exception that leaves the task without making its future ready.
ThrowLost(w) == [task EXCEPT ![w] = [Idle EXCEPT !.pc = "lost"]]

\* func throws: the exception ends the task's loop and is kept in its future
Throw(w) == [task EXCEPT ![w] = [Idle EXCEPT !.pc = "end"]]

CanLock(ms) == \A m \in ms : mutex[m] = 0

Lock(ms, w) == [m \in Mutexes |-> IF m \in ms THEN w ELSE mutex[m]]

\* A scope left without its mutexes being released.
UnlockNothing(ms) == mutex

Unlock(ms) == [m \in Mutexes |-> IF m \in ms THEN 0 ELSE mutex[m]]

(***************************************************************************)
(* FileCompressor::compress                                                *)
(***************************************************************************)
\* io::scanDirectory: every regular file under the root.
scanDirectory == [i \in 1..NPaths |-> i]

\* compress up to the parallelFor of computeHashes: the archive is created,
\* the codec id written at its head, the directory scanned.
CompressStart ==
    /\ pc = "start"
    /\ archive' = WritePOD(compType)
    /\ filePaths' = scanDirectory
    /\ nextIndex' = 0
    /\ calls' = NoCalls(Len(scanDirectory))
    /\ task' = parallelForStart
    /\ pc' = "hashing"
    /\ UNCHANGED <<inputVars, pathToHashMap, hashToPathMap, groupVars,
                   hashToOffsetMap, metadata, mutex, readVars, ioVars, poolVars, buildVars, auxVars>>

\* computeHashes, func: the digest is computed, then hashMapMutex is taken.
HashLock(w) ==
    /\ pc = "hashing" /\ task[w].pc = "h_hash"
    /\ CanLock({"hashMap"})
    /\ mutex' = Lock({"hashMap"}, w)
    /\ task' = [task EXCEPT ![w].pc = "h_store"]
    /\ UNCHANGED <<inputVars, pc, hashVars, groupVars, writeVars, nextIndex, calls,
                   readVars, ioVars, poolVars, buildVars, auxVars>>

\* computeHashes, func: both maps are updated under the lock.
HashStore(w) ==
    /\ pc = "hashing" /\ task[w].pc = "h_store"
    /\ LET p == filePaths[task[w].index + 1]
           hash == computeSHA256(fs[p])
       IN  /\ pathToHashMap' = Put(pathToHashMap, RelPath(p), hash)
           /\ hashToPathMap' = IF hash \in DOMAIN hashToPathMap
                               THEN hashToPathMap
                               ELSE Put(hashToPathMap, hash, RelPath(p))
    /\ mutex' = Unlock({"hashMap"})
    /\ task' = Return(w)
    /\ UNCHANGED <<inputVars, pc, filePaths, groupVars, writeVars, nextIndex, calls,
                   readVars, ioVars, poolVars, buildVars, auxVars>>

\* FileCompressor::groupFiles: the files whose path is the one stored for
\* their digest are unique, the others duplicates, each in scan order.
\* A test that takes every file for the first of its digest.
IsFirstOfHashAlways(p) == TRUE
IsFirstOfHash(p) == hashToPathMap[pathToHashMap[RelPath(p)]] = RelPath(p)

\* A grouping that puts every file, first of its digest or not, among the
\* duplicates.
groupFilesNoElse ==
    [uniqueFiles |-> SelectSeq(filePaths, IsFirstOfHash),
     duplicateFiles |-> filePaths]

groupFiles ==
    [uniqueFiles |-> SelectSeq(filePaths, IsFirstOfHash),
     duplicateFiles |-> SelectSeq(filePaths, LAMBDA p : ~IsFirstOfHash(p))]

\* pathToHashMap.at(relativePath) of groupFiles finds every scanned path.
AllHashed == \A i \in 1..Len(filePaths) : RelPath(filePaths[i]) \in DOMAIN pathToHashMap

\* computeHashes returns, groupFiles runs, processFiles starts its first
\* parallelFor.
StartUnique ==
    /\ pc = "hashing" /\ parallelForDone
    /\ AllHashed
    /\ uniqueFiles' = groupFiles.uniqueFiles
    /\ duplicateFiles' = groupFiles.duplicateFiles
    /\ nextIndex' = 0
    /\ calls' = NoCalls(Len(groupFiles.uniqueFiles))
    /\ task' = parallelForStart
    /\ pc' = "unique"
    /\ UNCHANGED <<inputVars, hashVars, writeVars, mutex, readVars, ioVars, poolVars, buildVars, auxVars>>

\* The record processFiles builds for a file.
ProcessedMeta(relativePath, hash, dataOffset, compressedSize, originalSize) ==
    [relativePath |-> relativePath, hash |-> hash, dataOffset |-> dataOffset,
     compressedSize |-> compressedSize, originalSize |-> originalSize]

\* processFiles, unique file of size 0: the three mutexes are taken together.
UniqueEmptyLock(w) ==
    /\ pc = "unique" /\ task[w].pc = "u_begin"
    /\ uniqueFiles[task[w].index + 1] \notin gone
    /\ file_size(uniqueFiles[task[w].index + 1]) = 0
    /\ CanLock({"archive", "hashOffset", "metadata"})
    /\ mutex' = Lock({"archive", "hashOffset", "metadata"}, w)
    /\ task' = [task EXCEPT ![w].pc = "u_empty"]
    /\ UNCHANGED <<inputVars, pc, hashVars, groupVars, writeVars, nextIndex, calls,
                   readVars, ioVars, poolVars, buildVars, auxVars>>

\* processFiles, unique file of size 0: a record at tellp, no payload.
UniqueEmptyStore(w) ==
    /\ pc = "unique" /\ task[w].pc = "u_empty"
    /\ LET p == uniqueFiles[task[w].index + 1]
           hash == pathToHashMap[RelPath(p)]
           emptyFileOffset == Len(archive)
       IN  /\ hashToOffsetMap' = Put(hashToOffsetMap, hash, emptyFileOffset)
           /\ metadata' = Append(metadata,
                  ProcessedMeta(RelPath(p), hash, emptyFileOffset, 0, 0))
    /\ mutex' = Unlock({"archive", "hashOffset", "metadata"})
    /\ task' = Return(w)
    /\ UNCHANGED <<inputVars, pc, hashVars, groupVars, archive, nextIndex, calls,
                   readVars, ioVars, poolVars, buildVars, auxVars>>

ArchiveWriterUnguarded == TRUE

\* std::lock_guard<std::mutex> lock(archiveMutex) of the writing tasks
ArchiveWriterFree == CanLock({"archive"})

\* processFiles, unique file: archiveMutex is taken, dataOffset = tellp, the
\* input file is opened.
UniqueLock(w) ==
    /\ pc = "unique" /\ task[w].pc = "u_begin"
    /\ uniqueFiles[task[w].index + 1] \notin gone
    /\ file_size(uniqueFiles[task[w].index + 1]) # 0
    /\ ArchiveWriterFree
    /\ mutex' = Lock({"archive"}, w)
    /\ task' = [task EXCEPT ![w].pc = "u_stream",
                            ![w].off = Len(archive),
                            ![w].todo = compressStream(fs[uniqueFiles[task[w].index + 1]])]
    /\ UNCHANGED <<inputVars, pc, hashVars, groupVars, writeVars, nextIndex, calls,
                   readVars, ioVars, poolVars, buildVars, auxVars>>

\* compressStream writes the next piece of the frame to the archive.
UniqueStream(w) ==
    /\ pc = "unique" /\ task[w].pc = "u_stream"
    /\ task[w].todo # <<>>
    /\ archive' = Append(archive, Head(task[w].todo))
    /\ task' = [task EXCEPT ![w].todo = Tail(task[w].todo)]
    /\ UNCHANGED <<inputVars, pc, hashVars, groupVars, hashToOffsetMap, metadata,
                   mutex, nextIndex, calls, readVars, ioVars, poolVars, buildVars, auxVars>>

\* compressedSize = tellp - startPos; archiveMutex is released.
UniqueUnlock(w) ==
    /\ pc = "unique" /\ task[w].pc = "u_stream"
    /\ task[w].todo = <<>>
    /\ task' = [task EXCEPT ![w].pc = "u_meta",
                            ![w].size = Len(archive) - task[w].off]
    /\ mutex' = Unlock({"archive"})
    /\ UNCHANGED <<inputVars, pc, hashVars, groupVars, writeVars, nextIndex, calls,
                   readVars, ioVars, poolVars, buildVars, auxVars>>

\* std::scoped_lock lock(hashOffsetMutex, metadataMutex)
UniqueMetaLock(w) ==
    /\ pc = "unique" /\ task[w].pc = "u_meta"
    /\ CanLock({"hashOffset", "metadata"})
    /\ mutex' = Lock({"hashOffset", "metadata"}, w)
    /\ task' = [task EXCEPT ![w].pc = "u_store"]
    /\ UNCHANGED <<inputVars, pc, hashVars, groupVars, writeVars, nextIndex, calls,
                   readVars, ioVars, poolVars, buildVars, auxVars>>

\* The digest index and the metadata vector get the original's entry.
UniqueMetaStore(w) ==
    /\ pc = "unique" /\ task[w].pc = "u_store"
    /\ LET p == uniqueFiles[task[w].index + 1]
           hash == pathToHashMap[RelPath(p)]
       IN  /\ hashToOffsetMap' = Put(hashToOffsetMap, hash, task[w].off)
           /\ metadata' = Append(metadata,
                  ProcessedMeta(RelPath(p), hash, task[w].off, task[w].size,
                                file_size(p)))
    /\ mutex' = Unlock({"hashOffset", "metadata"})
    /\ task' = Return(w)
    /\ UNCHANGED <<inputVars, pc, hashVars, groupVars, archive, nextIndex, calls,
                   readVars, ioVars, poolVars, buildVars, auxVars>>

\* The first parallelFor of processFiles has returned; the second starts.
StartDuplicates ==
    /\ pc = "unique" /\ parallelForDone
    /\ nextIndex' = 0
    /\ calls' = NoCalls(Len(duplicateFiles))
    /\ task' = parallelForStart
    /\ pc' = "duplicates"
    /\ UNCHANGED <<inputVars, hashVars, groupVars, writeVars, mutex, readVars,
                   ioVars, poolVars, buildVars, auxVars>>

\* processFiles, duplicate: dataOffset = hashToOffsetMap[hash], taken without
\* a lock; operator[] inserts 0 for a digest that has no entry.
DuplicateLookup(w) ==
    /\ pc = "duplicates" /\ task[w].pc = "d_begin"
    /\ duplicateFiles[task[w].index + 1] \notin gone
    /\ LET hash == pathToHashMap[RelPath(duplicateFiles[task[w].index + 1])]
       IN  /\ hashToOffsetMap' = IF hash \in DOMAIN hashToOffsetMap
                                 THEN hashToOffsetMap
                                 ELSE Put(hashToOffsetMap, hash, 0)
           /\ task' = [task EXCEPT ![w].pc = "d_lock",
                                   ![w].off = hashToOffsetMap'[hash]]
    /\ UNCHANGED <<inputVars, pc, hashVars, groupVars, archive, metadata, mutex,
                   nextIndex, calls, readVars, ioVars, poolVars, buildVars, auxVars>>

DuplicateLock(w) ==
    /\ pc = "duplicates" /\ task[w].pc = "d_lock"
    /\ CanLock({"metadata"})
    /\ mutex' = Lock({"metadata"}, w)
    /\ task' = [task EXCEPT ![w].pc = "d_store"]
    /\ UNCHANGED <<inputVars, pc, hashVars, groupVars, writeVars, nextIndex, calls,
                   readVars, ioVars, poolVars, buildVars, auxVars>>

\* The metadata vector gets the duplicate's record.
DuplicateStore(w) ==
    /\ pc = "duplicates" /\ task[w].pc = "d_store"
    /\ LET p == duplicateFiles[task[w].index + 1]
       IN  metadata' = Append(metadata,
               ProcessedMeta(RelPath(p), pathToHashMap[RelPath(p)], task[w].off,
                             0, file_size(p)))
    /\ mutex' = Unlock({"metadata"})
    /\ task' = Return(w)
    /\ UNCHANGED <<inputVars, pc, hashVars, groupVars, archive, hashToOffsetMap,
                   nextIndex, calls, readVars, ioVars, poolVars, buildVars, auxVars>>

\* processFiles returns; io::writeMetadata ends the archive.
CompressFinish ==
    /\ pc = "duplicates" /\ parallelForDone
    /\ archive' = WriteMetadata(archive, metadata, compType)
    /\ task' = [w \in Tasks |-> Idle]
    /\ pc' = "compressed"
    /\ UNCHANGED <<inputVars, hashVars, groupVars, hashToOffsetMap, metadata,
                   mutex, nextIndex, calls, readVars, ioVars, poolVars, buildVars, auxVars>>

(***************************************************************************)
(* FileCompressor::decompress                                              *)
(***************************************************************************)
\* compressedSize and originalSize of a record read back from the archive:
\* the values the record had when compress wrote it.
RestoreSizes(m) ==
    LET written == SelectSeq(metadata, LAMBDA x : x.relativePath = m.relativePath)
    IN  IF written = <<>>
        THEN ProcessedMeta(m.relativePath, m.hash, m.dataOffset, 0, 0)
        ELSE ProcessedMeta(m.relativePath, m.hash, m.dataOffset,
                           written[1].compressedSize, written[1].originalSize)

\* the sequence s from its last element to its first
Reverse(s) == [i \in 1..Len(s) |-> s[Len(s) + 1 - i]]

\* A grouping that lists the records of each digest last first.
groupMetadataReversed(md) ==
    [h \in {md[i].hash : i \in 1..Len(md)} |->
        Reverse(SelectSeq(md, LAMBDA m : m.hash = h))]

\* FileCompressor::groupMetadata: the records of each digest, in list order.
groupMetadata(md) ==
    [h \in {md[i].hash : i \in 1..Len(md)} |->
        SelectSeq(md, LAMBDA m : m.hash = h)]

\* The orders in which the groups of an unordered_map can be listed.
Orders(S) == {f \in [1..Cardinality(S) -> S] : \A i, j \in DOMAIN f : f[i] = f[j] => i = j}

\* The codec id decompress reads at the head of the archive.
HeaderRead == ReadPOD(archive, 0)

\* decompress up to the parallelFor of decompressFiles.
DecompressStart ==
    /\ pc \in {"compressed", "tampered"}
    /\ LET md == ReadMetadata(archive)
           records == [i \in 1..Len(md.metadata) |-> RestoreSizes(md.metadata[i])]
           grouped == groupMetadata(records)
       IN  IF ~HeaderRead.ok \/ ~md.ok \/ HeaderRead.val \notin Codecs
           THEN /\ pc' = "failed"
                /\ UNCHANGED <<workItems, outDir, nextIndex, calls, task>>
           ELSE /\ \E order \in Orders(DOMAIN grouped) :
                      workItems' = [i \in DOMAIN order |->
                                      [hash |-> order[i], metaRefs |-> grouped[order[i]]]]
                /\ outDir' = TRUE
                /\ nextIndex' = 0
                /\ calls' = NoCalls(Cardinality(DOMAIN grouped))
                /\ task' = parallelForStart
                /\ pc' = "extracting"
    /\ UNCHANGED <<inputVars, hashVars, groupVars, writeVars, mutex, rpos, out,
                   begun, ended,
                   ioVars, poolVars, buildVars, auxVars>>

hasEmptyFiles(metaRefs) == \E i \in 1..Len(metaRefs) : metaRefs[i].originalSize = 0

\* The first record of the group that has payload, <<>> when there is none.
originalMeta(metaRefs) == SelectSeq(metaRefs, IsOriginalBySize)

\* the group and the record a task is working on
ItemOf(w) == workItems[task[w].index + 1]
MetaOf(w) == ItemOf(w).metaRefs[task[w].j]

\* The loop goes to the next record of the group, or func returns.
Advance(w) ==
    IF task[w].j + 1 > Len(ItemOf(w).metaRefs)
    THEN Return(w)
    ELSE [task EXCEPT ![w].pc = "x_item", ![w].j = task[w].j + 1]

\* A record of size 0: an empty output file is created.
ExtractEmpty(w) ==
    /\ pc = "extracting" /\ task[w].pc = "x_item"
    /\ MetaOf(w).originalSize = 0
    /\ out' = Put(out, MetaOf(w).relativePath, <<>>)
    /\ begun' = begun \cup {MetaOf(w).relativePath}
    /\ ended' = ended \cup {MetaOf(w).relativePath}
    /\ task' = Advance(w)
    /\ UNCHANGED <<inputVars, pc, hashVars, groupVars, writeVars, mutex, nextIndex, calls,
                   workItems, rpos, outDir, ioVars, poolVars, buildVars, auxVars>>

\* The seek and decode span entered without waiting for archiveMutex.
ArchiveReaderUnguarded == TRUE

ArchiveReaderFree == CanLock({"archive"})

\* decompressFiles, func, at a record that has a size.  A group with neither
\* payload nor empty files is reported and left.  Otherwise archiveMutex is
\* taken, the archive is sought to the original's offset (a failed seek is
\* reported and func returns) and the output file is created.
ExtractSeek(w) ==
    /\ pc = "extracting" /\ task[w].pc = "x_item"
    /\ MetaOf(w).originalSize # 0
    /\ LET orig == originalMeta(ItemOf(w).metaRefs)
       IN  IF orig = <<>>
           THEN /\ task' = IF hasEmptyFiles(ItemOf(w).metaRefs)
                           THEN Throw(w)
                           ELSE Return(w)
                /\ UNCHANGED <<mutex, rpos, out, begun>>
           ELSE /\ ArchiveReaderFree
                /\ IF orig[1].dataOffset < 0
                   THEN /\ task' = Return(w)
                        /\ UNCHANGED <<mutex, rpos, out, begun>>
                   ELSE /\ mutex' = Lock({"archive"}, w)
                        /\ rpos' = orig[1].dataOffset
                        /\ out' = Put(out, MetaOf(w).relativePath, <<>>)
                        /\ begun' = begun \cup {MetaOf(w).relativePath}
                        /\ task' = [task EXCEPT ![w].pc = "x_decode"]
    /\ UNCHANGED <<inputVars, pc, hashVars, groupVars, writeVars, nextIndex, calls,
                   workItems, outDir, ended, ioVars, poolVars, buildVars, auxVars>>

\* The frame is decoded into the output file; a codec error or a decoded size
\* other than the recorded one throws.  archiveMutex is released either way.
ExtractDecode(w) ==
    /\ pc = "extracting" /\ task[w].pc = "x_decode"
    /\ LET r == decompressStream(HeaderRead.val, archive, rpos)
           orig == originalMeta(ItemOf(w).metaRefs)[1]
       IN  /\ out' = Put(out, MetaOf(w).relativePath, r.out)
           /\ task' = IF ~r.ok \/ (orig.originalSize > 0 /\ Len(r.out) # orig.originalSize)
                      THEN Throw(w)
                      ELSE [task EXCEPT ![w].pc = "x_verify"]
    /\ mutex' = Unlock({"archive"})
    /\ UNCHANGED <<inputVars, pc, hashVars, groupVars, writeVars, nextIndex, calls,
                   workItems, rpos, outDir, begun, ended, ioVars, poolVars, buildVars, auxVars>>

\* a directory without the file at path
Remove(f, path) == [k \in DOMAIN f \ {path} |-> f[k]]

\* What the hash check leaves of the output file.
VerifyOutput(path, hash) ==
    IF computeSHA256(out[path]) # hash THEN Remove(out, path) ELSE out

\* The output file is hashed again; on a mismatch it is removed.
ExtractVerify(w) ==
    /\ pc = "extracting" /\ task[w].pc = "x_verify"
    /\ out' = VerifyOutput(MetaOf(w).relativePath, ItemOf(w).hash)
    /\ ended' = ended \cup {MetaOf(w).relativePath}
    /\ task' = Advance(w)
    /\ UNCHANGED <<inputVars, pc, hashVars, groupVars, writeVars, mutex, nextIndex, calls,
                   workItems, rpos, outDir, begun, ioVars, poolVars, buildVars, auxVars>>

\* decompressFiles returns, displayStats runs, decompress returns.
DecompressFinish ==
    /\ pc = "extracting" /\ parallelForDone
    /\ task' = [w \in Tasks |-> Idle]
    /\ pc' = "done"
    /\ UNCHANGED <<inputVars, hashVars, groupVars, writeVars, mutex, nextIndex, calls,
                   readVars, ioVars, poolVars, buildVars, auxVars>>

\* Between compress and decompress one item of the payload region of the
\* archive file is overwritten.
Tamper ==
    /\ pc = "compressed"
    /\ \E i \in 2..ReadFooter(archive).metaOffset :
       \E a \in {FrameHead, FrameEnd} \cup {DataBase + b : b \in 1..MaxByte} :
          /\ a # archive[i]
          /\ archive' = [archive EXCEPT ![i] = a]
    /\ pc' = "tampered"
    /\ UNCHANGED <<inputVars, hashVars, groupVars, hashToOffsetMap, metadata, mutex,
                   nextIndex, calls, task, readVars, ioVars, poolVars, buildVars, auxVars>>

(***************************************************************************)
(* Specifications.                                                         *)
(***************************************************************************)
TaskStep(w) ==
    \/ Fetch(w)
    \/ HashLock(w) \/ HashStore(w)
    \/ UniqueEmptyLock(w) \/ UniqueEmptyStore(w)
    \/ UniqueLock(w) \/ UniqueStream(w) \/ UniqueUnlock(w)
    \/ UniqueMetaLock(w) \/ UniqueMetaStore(w)
    \/ DuplicateLookup(w) \/ DuplicateLock(w) \/ DuplicateStore(w)
    \/ ExtractEmpty(w) \/ ExtractSeek(w)
    \/ ExtractDecode(w) \/ ExtractVerify(w)

Next ==
    \/ CompressStart \/ StartUnique \/ StartDuplicates \/ CompressFinish
    \/ DecompressStart \/ DecompressFinish
    \/ \E w \in Tasks : TaskStep(w)

Spec == Init /\ [][Next]_vars

\* The scheduler runs every pool thread that can take a step, and the
\* thread that called compress or decompress goes on when parallelFor has
\* returned.  Nothing obliges anybody to call decompress.
FairTasks ==
    /\ \A w \in Tasks : WF_vars(TaskStep(w))
    /\ WF_vars(CompressStart \/ StartUnique \/ StartDuplicates \/ CompressFinish
                  \/ DecompressFinish)

SpecFair == Init /\ [][Next]_vars /\ FairTasks

NextT == Next \/ Tamper

SpecT == Init /\ [][NextT]_vars

(***************************************************************************)
(* ThreadPool::getInstance with its default argument, followed by the      *)
(* pipeline on the pool it makes.                                          *)
(*                                                                         *)
(* hardware_concurrency() is an unsigned int; UIntModulus stands for the   *)
(* 2^32 values of that type.  A platform creates at most MaxThreads        *)
(* threads: the constructor of a std::thread beyond that throws            *)
(* std::system_error out of ThreadPool::ThreadPool, the vector of the      *)
(* threads already started is destroyed while they are joinable, and the   *)
(* process ends in std::terminate.                                         *)
(***************************************************************************)
UIntModulus == 65536

\* std::thread::hardware_concurrency() - 1
DefaultNumThreads(h) == (h - 1) % UIntModulus

InitHw ==
    /\ fs \in [Paths -> Contents]
    /\ compType \in Codecs
    /\ numThreads = 0
    /\ hw \in 0..MaxThreads + 1
    /\ pc = "nopool"
    /\ filePaths = <<>>
    /\ pathToHashMap = <<>>
    /\ hashToPathMap = <<>>
    /\ uniqueFiles = <<>>
    /\ duplicateFiles = <<>>
    /\ archive = <<>>
    /\ mutex = [m \in Mutexes |-> 0]
    /\ hashToOffsetMap = <<>>
    /\ metadata = <<>>
    /\ nextIndex = 0
    /\ calls = <<>>
    /\ task = [w \in Tasks |-> Idle]
    /\ workItems = <<>>
    /\ rpos = 0
    /\ out = <<>>
    /\ outDir = FALSE
    /\ begun = {} /\ ended = {}
    /\ ioIn = <<>> /\ ioCodec = NONE /\ ioStream = <<>> /\ ioOut = MetaFail
    /\ ioPc = "off"
    /\ ftIn = NoFooter /\ ftOut = ReadFooter(<<>>)
    /\ PoolOff
    /\ BuildOff
    /\ AuxOff

\* The first ThreadPool::getInstance() of the process: the instance is made
\* with the default argument.
GetInstance ==
    /\ pc = "nopool"
    /\ IF DefaultNumThreads(hw) <= MaxThreads
       THEN /\ numThreads' = DefaultNumThreads(hw)
            /\ pc' = "start"
       ELSE /\ numThreads' = numThreads
            /\ pc' = "terminated"
    /\ UNCHANGED <<fs, compType, hw, gone, hashVars, groupVars, writeVars, mutex,
                   nextIndex, calls, task, readVars, ioVars, poolVars, buildVars, auxVars>>

\* computeHashes returns and pathToHashMap.at of groupFiles throws
\* std::out_of_range out of compress.
GroupFilesThrows ==
    /\ pc = "hashing" /\ parallelForDone
    /\ ~AllHashed
    /\ pc' = "aborted"
    /\ UNCHANGED <<inputVars, hashVars, groupVars, writeVars, mutex, nextIndex,
                   calls, task, readVars, ioVars, poolVars, buildVars, auxVars>>

NextHw == GetInstance \/ GroupFilesThrows \/ Next

SpecHw == InitHw /\ [][NextHw]_vars

(***************************************************************************)
(* io::writeMetadata followed by io::readMetadata on one file, for record  *)
(* lists and codec ids of any kind.                                        *)
(***************************************************************************)
IoOffsets == {-2, -1, 0, 5}
IoHashes == {<<>>, <<9, 1>>}
IoPaths == {<<65>>, <<66>>}
IoRecords == {FileMeta(o, h, p) : o \in IoOffsets, h \in IoHashes, p \in IoPaths}
IoMetaOffsets == {0, 2, 7}
IoLists == UNION {[1..n -> IoRecords] : n \in 0..MaxRecs}

InitIO ==
    /\ fs = [p \in Paths |-> <<>>]
    /\ compType = NONE
    /\ numThreads = 1
    /\ hw = 2
    /\ pc = "off"
    /\ filePaths = <<>>
    /\ pathToHashMap = <<>>
    /\ hashToPathMap = <<>>
    /\ uniqueFiles = <<>>
    /\ duplicateFiles = <<>>
    /\ archive = <<>>
    /\ mutex = [m \in Mutexes |-> 0]
    /\ hashToOffsetMap = <<>>
    /\ metadata = <<>>
    /\ nextIndex = 0
    /\ calls = <<>>
    /\ task = [w \in Tasks |-> Idle]
    /\ workItems = <<>>
    /\ rpos = 0
    /\ out = <<>>
    /\ outDir = FALSE
    /\ begun = {} /\ ended = {}
    /\ ioIn \in IoLists
    /\ ioCodec \in Codecs \cup {NONE}
    /\ ioStream \in {<<>>, <<FrameHead, FrameEnd>>}
    /\ ioOut = MetaFail
    /\ ioPc = "in"
    /\ ftIn = NoFooter /\ ftOut = ReadFooter(<<>>)
    /\ PoolOff
    /\ BuildOff
    /\ AuxOff

pipelineVars == <<inputVars, pc, hashVars, groupVars, writeVars, mutex, nextIndex, calls,
                  task, readVars>>

IOWrite ==
    /\ ioPc = "in"
    /\ ioStream' = WriteMetadata(ioStream, ioIn, ioCodec)
    /\ ioPc' = "written"
    /\ UNCHANGED <<pipelineVars, poolVars, buildVars, auxVars, ioIn, ioCodec, ioOut, ftIn, ftOut>>

IORead ==
    /\ ioPc = "written"
    /\ ioOut' = ReadMetadata(ioStream)
    /\ ioPc' = "read"
    /\ UNCHANGED <<pipelineVars, poolVars, buildVars, auxVars, ioIn, ioCodec, ioStream, ftIn, ftOut>>

\* io::writeFooter behind whatever the stream holds, called as writeMetadata
\* calls it: the codec id, the offset, and the number of all records.
FooterWrite ==
    /\ ioPc = "in"
    /\ \E no \in 0..MaxRecs, nd \in 0..MaxRecs, mo \in IoMetaOffsets :
          /\ ftIn' = [compType |-> ioCodec, uniqueCount |-> no,
                      duplicateCount |-> nd, metaOffset |-> mo]
          /\ ioStream' = ioStream \o WriteFooter(ioCodec, mo, no + nd)
    /\ ioPc' = "f_written"
    /\ UNCHANGED <<pipelineVars, poolVars, buildVars, auxVars, ioIn, ioCodec, ioOut, ftOut>>

\* io::readFooter on that stream.
FooterRead ==
    /\ ioPc = "f_written"
    /\ ftOut' = ReadFooter(ioStream)
    /\ ioPc' = "f_read"
    /\ UNCHANGED <<pipelineVars, poolVars, buildVars, auxVars, ioIn, ioCodec, ioStream, ioOut, ftIn>>

NextIO == IOWrite \/ IORead \/ FooterWrite \/ FooterRead

SpecIO == InitIO /\ [][NextIO]_vars

(***************************************************************************)
(* ThreadPool: the worker loop, enqueue and the destructor                 *)
(* (src/src/ThreadPool.cpp, src/include/ThreadPool.inl).                   *)
(*                                                                         *)
(* A pool of numThreads worker threads, one thread that calls enqueue up   *)
(* to MaxJobs times, and one thread that destroys the pool at some time.   *)
(* queueMutex is "free" or names the kind of thread that holds it; a       *)
(* worker holds it exactly while it is at "wait".  A worker at "sleeping"  *)
(* is blocked inside condition.wait, which has released the mutex.         *)
(***************************************************************************)
InitPool ==
    /\ fs = [p \in Paths |-> <<>>]
    /\ compType = NONE
    /\ numThreads \in 1..MaxThreads
    /\ hw = numThreads + 1
    /\ pc = "off"
    /\ filePaths = <<>>
    /\ pathToHashMap = <<>>
    /\ hashToPathMap = <<>>
    /\ uniqueFiles = <<>>
    /\ duplicateFiles = <<>>
    /\ archive = <<>>
    /\ mutex = [m \in Mutexes |-> 0]
    /\ hashToOffsetMap = <<>>
    /\ metadata = <<>>
    /\ nextIndex = 0
    /\ calls = <<>>
    /\ task = [w \in Tasks |-> Idle]
    /\ workItems = <<>>
    /\ rpos = 0
    /\ out = <<>>
    /\ outDir = FALSE
    /\ begun = {} /\ ended = {}
    /\ ioIn = <<>> /\ ioCodec = NONE /\ ioStream = <<>> /\ ioOut = MetaFail
    /\ ioPc = "off"
    /\ ftIn = NoFooter /\ ftOut = ReadFooter(<<>>)
    /\ stop = FALSE
    /\ tasks = <<>>
    /\ queueMutex = "free"
    /\ threads = [w \in Tasks |-> IF w <= numThreads THEN "lock" ELSE "off"]
    /\ running = [w \in Tasks |-> 0]
    /\ activeThreads = 0
    /\ futures = [j \in Jobs |-> "none"]
    /\ caller = [pc |-> "idle", job |-> 0]
    /\ dtor = [pc |-> "alive", joined |-> 0]
    /\ BuildOff
    /\ AuxOff

\* std::unique_lock<std::mutex> lock(queueMutex) of the worker loop, and the
\* re-acquisition of the mutex by a worker that was woken inside wait.
WorkerLock(w) ==
    /\ threads[w] \in {"lock", "woken"}
    /\ queueMutex = "free"
    /\ queueMutex' = "worker"
    /\ threads' = [threads EXCEPT ![w] = "wait"]
    /\ UNCHANGED <<pipelineVars, ioVars, buildVars, auxVars, stop, tasks, running, activeThreads,
                   futures, caller, dtor>>

\* the predicate of condition.wait
WaitPredicate == stop \/ tasks # <<>>

\* A worker that returns as soon as the stop flag is set.
WorkerExitsOnStop == stop

\* if (stop && tasks.empty()) return;
WorkerExits == stop /\ tasks = <<>>

\* A pop that leaves the job in the queue.
PopNothing(q) == q

\* tasks.pop()
Pop(q) == Tail(q)

\* The worker's critical section: condition.wait releases the mutex and
\* blocks while its predicate is false; otherwise the worker returns, or
\* pops the front job; the lock's scope ends, and activeThreads++.
WorkerWait(w) ==
    /\ threads[w] = "wait"
    /\ queueMutex' = "free"
    /\ IF ~WaitPredicate
       THEN /\ threads' = [threads EXCEPT ![w] = "sleeping"]
            /\ UNCHANGED <<tasks, running, activeThreads, futures>>
       ELSE IF WorkerExits
       THEN /\ threads' = [threads EXCEPT ![w] = "exited"]
            /\ UNCHANGED <<tasks, running, activeThreads, futures>>
       ELSE /\ threads' = [threads EXCEPT ![w] = "run"]
            /\ running' = [running EXCEPT ![w] = Head(tasks)]
            /\ tasks' = Pop(tasks)
            /\ activeThreads' = activeThreads + 1
            /\ futures' = [futures EXCEPT ![Head(tasks)] = "running"]
    /\ UNCHANGED <<pipelineVars, ioVars, buildVars, auxVars, stop, caller, dtor>>

\* task() returns, which makes its future ready; activeThreads--.
WorkerRun(w) ==
    /\ threads[w] = "run"
    /\ futures' = [futures EXCEPT ![running[w]] = "ready"]
    /\ running' = [running EXCEPT ![w] = 0]
    /\ activeThreads' = activeThreads - 1
    /\ threads' = [threads EXCEPT ![w] = "lock"]
    /\ UNCHANGED <<pipelineVars, ioVars, buildVars, auxVars, stop, tasks, queueMutex, caller, dtor>>

\* std::condition_variable::wait may return without a notification.
SpuriousWake(w) ==
    /\ threads[w] = "sleeping"
    /\ threads' = [threads EXCEPT ![w] = "woken"]
    /\ UNCHANGED <<pipelineVars, ioVars, buildVars, auxVars, stop, tasks, queueMutex, running,
                   activeThreads, futures, caller, dtor>>

\* A notify_one whose notification is lost.
NotifyOneLost(th) == {th}

\* condition.notify_one(): one of the blocked workers is woken, if any is.
NotifyOne(th) ==
    IF \A w \in Tasks : th[w] # "sleeping"
    THEN {th}
    ELSE {[th EXCEPT ![w] = "woken"] : w \in {v \in Tasks : th[v] = "sleeping"}}

\* A notify that wakes nobody.
NotifyNobody(th) == th
\* condition.notify_all(): every blocked worker is woken.
NotifyAll(th) == [w \in Tasks |-> IF th[w] = "sleeping" THEN "woken" ELSE th[w]]

\* enqueue is called with the next job; the packaged task and its future
\* are made.
EnqueueCall ==
    /\ caller.pc = "idle"
    /\ caller.job < MaxJobs
    /\ dtor.pc # "returned"
    /\ caller' = [pc |-> "lock", job |-> caller.job + 1]
    /\ UNCHANGED <<pipelineVars, ioVars, buildVars, auxVars, stop, tasks, queueMutex, threads,
                   running, activeThreads, futures, dtor>>

\* std::unique_lock<std::mutex> lock(queueMutex) of enqueue
EnqueueLock ==
    /\ caller.pc = "lock"
    /\ queueMutex = "free"
    /\ queueMutex' = "caller"
    /\ caller' = [caller EXCEPT !.pc = "locked"]
    /\ UNCHANGED <<pipelineVars, ioVars, buildVars, auxVars, stop, tasks, threads, running,
                   activeThreads, futures, dtor>>

\* An enqueue that never sees the pool stopped.
EnqueueNeverStopped == FALSE
\* if (stop) of enqueue
EnqueueStopped == stop

\* enqueue under the mutex: throw std::runtime_error when the pool is
\* stopped, tasks.emplace otherwise; the lock's scope ends either way.
EnqueueCheck ==
    /\ caller.pc = "locked"
    /\ queueMutex' = "free"
    /\ IF EnqueueStopped
       THEN /\ futures' = [futures EXCEPT ![caller.job] = "refused"]
            /\ caller' = [caller EXCEPT !.pc = "idle"]
            /\ UNCHANGED tasks
       ELSE /\ tasks' = Append(tasks, caller.job)
            /\ futures' = [futures EXCEPT ![caller.job] = "queued"]
            /\ caller' = [caller EXCEPT !.pc = "notify"]
    /\ UNCHANGED <<pipelineVars, ioVars, buildVars, auxVars, stop, threads, running, activeThreads,
                   dtor>>

\* condition.notify_one(); return result;
EnqueueNotify ==
    /\ caller.pc = "notify"
    /\ threads' \in NotifyOne(threads)
    /\ caller' = [caller EXCEPT !.pc = "idle"]
    /\ UNCHANGED <<pipelineVars, ioVars, buildVars, auxVars, stop, tasks, queueMutex, running,
                   activeThreads, futures, dtor>>

\* The pool's destructor is called.
DtorBegin ==
    /\ dtor.pc = "alive"
    /\ dtor' = [dtor EXCEPT !.pc = "lock"]
    /\ UNCHANGED <<pipelineVars, ioVars, buildVars, auxVars, stop, tasks, queueMutex, threads,
                   running, activeThreads, futures, caller>>

\* std::unique_lock<std::mutex> lock(queueMutex) of the destructor
DtorLock ==
    /\ dtor.pc = "lock"
    /\ queueMutex = "free"
    /\ queueMutex' = "dtor"
    /\ dtor' = [dtor EXCEPT !.pc = "locked"]
    /\ UNCHANGED <<pipelineVars, ioVars, buildVars, auxVars, stop, tasks, threads, running,
                   activeThreads, futures, caller>>

\* stop = true; the lock's scope ends.
DtorStop ==
    /\ dtor.pc = "locked"
    /\ stop' = TRUE
    /\ queueMutex' = "free"
    /\ dtor' = [dtor EXCEPT !.pc = "notify"]
    /\ UNCHANGED <<pipelineVars, ioVars, buildVars, auxVars, tasks, threads, running, activeThreads,
                   futures, caller>>

\* condition.notify_all()
DtorNotifyAll ==
    /\ dtor.pc = "notify"
    /\ threads' = NotifyAll(threads)
    /\ dtor' = [dtor EXCEPT !.pc = "join"]
    /\ UNCHANGED <<pipelineVars, ioVars, buildVars, auxVars, stop, tasks, queueMutex, running,
                   activeThreads, futures, caller>>

\* thread.join() on the next thread of the vector returns once that thread
\* has returned from its loop.
DtorJoin ==
    /\ dtor.pc = "join"
    /\ dtor.joined < numThreads
    /\ threads[dtor.joined + 1] = "exited"
    /\ dtor' = [dtor EXCEPT !.joined = dtor.joined + 1]
    /\ UNCHANGED <<pipelineVars, ioVars, buildVars, auxVars, stop, tasks, queueMutex, threads,
                   running, activeThreads, futures, caller>>

\* Every thread is joined: the destructor returns.
DtorReturn ==
    /\ dtor.pc = "join"
    /\ dtor.joined = numThreads
    /\ dtor' = [dtor EXCEPT !.pc = "returned"]
    /\ UNCHANGED <<pipelineVars, ioVars, buildVars, auxVars, stop, tasks, queueMutex, threads,
                   running, activeThreads, futures, caller>>

WorkerStep(w) == WorkerLock(w) \/ WorkerWait(w) \/ WorkerRun(w)

NextPool ==
    \/ \E w \in Tasks : WorkerStep(w)
    \/ \E w \in Tasks : SpuriousWake(w)
    \/ EnqueueCall \/ EnqueueLock \/ EnqueueCheck \/ EnqueueNotify
    \/ DtorBegin \/ DtorLock \/ DtorStop \/ DtorNotifyAll \/ DtorJoin \/ DtorReturn

SpecPool == InitPool /\ [][NextPool]_vars

\* The scheduler runs every thread that can take a step; a thread that
\* finds queueMutex free again and again gets it in the end (strong
\* fairness of the three lock steps).  Nothing obliges a thread to call
\* enqueue or the destructor, nor a wait to return spuriously.  A job that
\* is run returns (WorkerRun).
FairPool ==
    /\ \A w \in Tasks : /\ SF_vars(WorkerLock(w))
                        /\ WF_vars(WorkerWait(w))
                        /\ WF_vars(WorkerRun(w))
    /\ SF_vars(EnqueueLock)
    /\ WF_vars(EnqueueCheck \/ EnqueueNotify)
    /\ SF_vars(DtorLock)
    /\ WF_vars(DtorStop \/ DtorNotifyAll \/ DtorJoin \/ DtorReturn)

SpecPoolFair == InitPool /\ [][NextPool]_vars /\ FairPool

(***************************************************************************)
(* enum class CompressionType and createCompressor in two builds           *)
(* (src/include/CompressorFactory.h, src/src/CompressorFactory.cpp).       *)
(*                                                                         *)
(* A build is the set of codecs whose HAVE_ macro is defined; a codec is   *)
(* named by its place in the declaration, BROTLI, ZSTD, ZLIB.  One build   *)
(* compresses with one of its codecs and writes the enumerator's value at  *)
(* the head of the archive; the archive may then carry any other value;    *)
(* another build reads the value and calls createCompressor with it.       *)
(***************************************************************************)
\* The value of enumerator c in a build: enumerators without initialiser
\* count from 0 over those that the preprocessor keeps.
EnumValue(build, c) == Cardinality({d \in build : d < c})

\* The value of NONE, the last enumerator, in a build.
NoneValue(build) == Cardinality(build)

\* A factory that falls back to some compiled-in codec for a value that
\* names none.
createCompressorFallback(build, id) ==
    IF \E c \in build : EnumValue(build, c) = id
    THEN [ok |-> TRUE, codec |-> CHOOSE c \in build : EnumValue(build, c) = id]
    ELSE IF build = {} THEN Unsupported
    ELSE [ok |-> TRUE, codec |-> CHOOSE c \in build : TRUE]

\* compression::createCompressor(type) in a build: a case for each codec
\* compiled in, default: throw.
createCompressor(build, id) ==
    IF \E c \in build : EnumValue(build, c) = id
    THEN [ok |-> TRUE, codec |-> CHOOSE c \in build : EnumValue(build, c) = id]
    ELSE Unsupported

InitBuild ==
    /\ fs = [p \in Paths |-> <<>>]
    /\ compType = NONE
    /\ numThreads = 1
    /\ hw = 2
    /\ pc = "off"
    /\ filePaths = <<>>
    /\ pathToHashMap = <<>>
    /\ hashToPathMap = <<>>
    /\ uniqueFiles = <<>>
    /\ duplicateFiles = <<>>
    /\ archive = <<>>
    /\ mutex = [m \in Mutexes |-> 0]
    /\ hashToOffsetMap = <<>>
    /\ metadata = <<>>
    /\ nextIndex = 0
    /\ calls = <<>>
    /\ task = [w \in Tasks |-> Idle]
    /\ workItems = <<>>
    /\ rpos = 0
    /\ out = <<>>
    /\ outDir = FALSE
    /\ begun = {} /\ ended = {}
    /\ ioIn = <<>> /\ ioCodec = NONE /\ ioStream = <<>> /\ ioOut = MetaFail
    /\ ioPc = "off"
    /\ ftIn = NoFooter /\ ftOut = ReadFooter(<<>>)
    /\ PoolOff
    /\ wBuild \in SUBSET Codecs /\ rBuild \in SUBSET Codecs
    /\ bCodec = NONE /\ bId = NONE
    /\ bMade = Unsupported
    /\ bPc = "built"
    /\ AuxOff

\* compress in the writing build, with a codec compiled into it:
\* io::write(archive, compType).
BuildWrite ==
    /\ bPc = "built"
    /\ \E c \in wBuild : /\ bCodec' = c
                         /\ bId' = EnumValue(wBuild, c)
    /\ bPc' = "written"
    /\ UNCHANGED <<pipelineVars, ioVars, poolVars, auxVars, wBuild, rBuild, bMade>>

\* The archive that reaches the reading build carries another value: NONE
\* of some build, or a value outside the enumeration.
BuildForge ==
    /\ bPc \in {"built", "written"}
    /\ \E id \in 0..NONE + 1 : id # bId /\ bId' = id
    /\ bCodec' = NONE
    /\ bPc' = "forged"
    /\ UNCHANGED <<pipelineVars, ioVars, poolVars, auxVars, wBuild, rBuild, bMade>>

\* decompress in the reading build: io::read(archive, compType), then
\* createCompressor(compType).
BuildRead ==
    /\ bPc \in {"written", "forged"}
    /\ bMade' = createCompressor(rBuild, bId)
    /\ bPc' = IF bPc = "written" THEN "read" ELSE "read_forged"
    /\ UNCHANGED <<pipelineVars, ioVars, poolVars, auxVars, wBuild, rBuild, bCodec, bId>>

NextBuild == BuildWrite \/ BuildForge \/ BuildRead

SpecBuild == InitBuild /\ [][NextBuild]_vars

(***************************************************************************)
(* The archive file byte by byte: compress, damage to the file, decompress *)
(* up to the call of decompressFiles.  Widths are scaled.                  *)
(***************************************************************************)
MaxFiles == 2
MaxPath == 4
MaxBlob == 1

\* sizeof of a fixed-width value, scaled from 8.
PodBytes == 2

\* The number of values of one byte, scaled from 256.
ByteRange == 8

\* The number of values of a fixed-width field.
PodRange == ByteRange ^ PodBytes

\* write<T>: the bytes of the value, lowest first.
WritePODBytes(v) ==
    [i \in 1..PodBytes |-> ((v % PodRange) \div (ByteRange ^ (i - 1))) % ByteRange]

\* the value a run of bytes holds, lowest byte first
RECURSIVE ValueOf(_)
ValueOf(b) == IF b = <<>> THEN 0 ELSE Head(b) + ByteRange * ValueOf(Tail(b))

\* read<T>: PodBytes bytes from pos; a short read throws.
ReadPODBytes(s, pos) ==
    IF pos < 0 \/ pos + PodBytes > Len(s) THEN ReadFail
    ELSE [ok |-> TRUE, val |-> ValueOf(SubSeq(s, pos + 1, pos + PodBytes)),
          pos |-> pos + PodBytes]

\* write(stream, string)
WriteStringBytes(str) == WritePODBytes(Len(str)) \o str

\* read(stream, string)
ReadStringBytes(s, pos) ==
    LET n == ReadPODBytes(s, pos)
    IN  IF ~n.ok THEN ReadFail
        ELSE IF n.pos + n.val > Len(s) THEN ReadFail
        ELSE [ok |-> TRUE, val |-> SubSeq(s, n.pos + 1, n.pos + n.val),
              pos |-> n.pos + n.val]

\* writeMetadata, byte by byte.
WriteMetadataBytes(stream, md, codec) ==
    LET metaOffset == Len(stream)
        originalFiles == OriginalsOf(md)
        dups == DuplicatesOf(md)
    IN  stream
          \o WritePODBytes(Len(originalFiles))
          \o Flatten([i \in 1..Len(originalFiles) |->
                        WritePODBytes(originalFiles[i].dataOffset)
                          \o WriteStringBytes(originalFiles[i].hash)
                          \o WriteStringBytes(originalFiles[i].relativePath)])
          \o WritePODBytes(Len(dups))
          \o Flatten([i \in 1..Len(dups) |->
                        WriteStringBytes(dups[i].hash)
                          \o WriteStringBytes(dups[i].relativePath)])
          \o WritePODBytes(codec) \o WritePODBytes(metaOffset)
          \o WritePODBytes(Len(md))

\* readMetadata, byte by byte: the originals.
RECURSIVE ReadOriginalsBytes(_, _, _, _)
ReadOriginalsBytes(s, pos, n, acc) ==
    IF n <= 0 THEN [ok |-> TRUE, val |-> acc, pos |-> pos]
    ELSE LET o == ReadPODBytes(s, pos)
             h == ReadStringBytes(s, o.pos)
             p == ReadStringBytes(s, h.pos)
         IN  IF ~o.ok \/ ~h.ok \/ ~p.ok THEN ReadFail
             ELSE ReadOriginalsBytes(s, p.pos, n - 1,
                                     Append(acc, FileMeta(o.val, h.val, p.val)))

\* readMetadata, byte by byte: the duplicates.
RECURSIVE ReadDuplicatesBytes(_, _, _, _)
ReadDuplicatesBytes(s, pos, n, acc) ==
    IF n <= 0 THEN [ok |-> TRUE, val |-> acc, pos |-> pos]
    ELSE LET h == ReadStringBytes(s, pos)
             p == ReadStringBytes(s, h.pos)
         IN  IF ~h.ok \/ ~p.ok THEN ReadFail
             ELSE ReadDuplicatesBytes(s, p.pos, n - 1,
                                      Append(acc, FileMeta(-1, h.val, p.val)))

\* readFooter, byte by byte: seekg(-footerSize, end), then the three fields.
ReadFooterBytes(s) ==
    LET c == ReadPODBytes(s, Len(s) - 3 * PodBytes)
        o == ReadPODBytes(s, c.pos)
        n == ReadPODBytes(s, o.pos)
    IN  IF ~c.ok \/ ~o.ok \/ ~n.ok
        THEN [ok |-> FALSE, compType |-> NONE, metaOffset |-> 0, metaCount |-> 0]
        ELSE [ok |-> TRUE, compType |-> c.val, metaOffset |-> o.val,
              metaCount |-> n.val]

\* readMetadata, byte by byte.
ReadMetadataBytes(s) ==
    LET f == ReadFooterBytes(s)
        oc == ReadPODBytes(s, f.metaOffset)
        os == ReadOriginalsBytes(s, oc.pos, oc.val, <<>>)
        dc == ReadPODBytes(s, os.pos)
        ds == ReadDuplicatesBytes(s, dc.pos, dc.val, os.val)
    IN  IF ~f.ok THEN MetaFail
        ELSE IF ~oc.ok THEN MetaFail
        ELSE IF ~os.ok THEN MetaFail
        ELSE IF ~dc.ok THEN MetaFail
        ELSE IF ~ds.ok THEN MetaFail
        ELSE [ok |-> TRUE, compType |-> f.compType, metadata |-> ds.val]

\* The paths and the files of a small directory; blob 0 is the empty content.
TrPaths == UNION {[1..n -> {1}] : n \in 1..MaxPath}

TrFile == [path : TrPaths, blob : 0..MaxBlob]

TrInputs ==
    UNION {{fl \in [1..n -> TrFile] :
              \A i, j \in 1..n : fl[i].path = fl[j].path => i = j} : n \in 0..MaxFiles}

\* computeSHA256FromFile, scaled to two characters.
DigestBytes(blob) == <<blob + 1, blob + 1>>

\* compressStream: the frame of a content; an empty file gets no payload.
FrameBytes(blob) == IF blob = 0 THEN <<>> ELSE <<ByteRange - 1, blob>>

\* groupFiles: the first file of each digest is the unique one.
IsFirstBlob(fl, i) == \A j \in 1..(i - 1) : fl[j].blob # fl[i].blob

FirstOfBlob(fl, i) == CHOOSE j \in 1..i : IsFirstBlob(fl, j) /\ fl[j].blob = fl[i].blob

\* archive.tellp() when the unique file i is processed by a single worker.
BlobOffset(fl, i) ==
    PodBytes + Len(Flatten([j \in 1..(i - 1) |->
                              IF IsFirstBlob(fl, j) THEN FrameBytes(fl[j].blob) ELSE <<>>]))

\* processFiles: the records of the unique files, then of the duplicates.
TrMetadata(fl) ==
    LET idx == [i \in 1..Len(fl) |-> i]
        order == SelectSeq(idx, LAMBDA i : IsFirstBlob(fl, i))
                   \o SelectSeq(idx, LAMBDA i : ~IsFirstBlob(fl, i))
    IN  [k \in 1..Len(order) |->
            FileMeta(BlobOffset(fl, FirstOfBlob(fl, order[k])),
                     DigestBytes(fl[order[k]].blob), fl[order[k]].path)]

\* compress: the header, the frames of the unique files, writeMetadata.
CompressImage(codec, fl) ==
    WriteMetadataBytes(
        WritePODBytes(codec)
          \o Flatten([j \in 1..Len(fl) |->
                        IF IsFirstBlob(fl, j) THEN FrameBytes(fl[j].blob) ELSE <<>>]),
        TrMetadata(fl), codec)

\* The pipeline, the metadata files, the pool and the builds are not under
\* observation.
OthersOff ==
    /\ fs = [p \in Paths |-> <<>>]
    /\ gone = {}
    /\ compType = NONE
    /\ numThreads = 1
    /\ hw = 2
    /\ pc = "off"
    /\ filePaths = <<>>
    /\ pathToHashMap = <<>>
    /\ hashToPathMap = <<>>
    /\ uniqueFiles = <<>>
    /\ duplicateFiles = <<>>
    /\ archive = <<>>
    /\ mutex = [m \in Mutexes |-> 0]
    /\ hashToOffsetMap = <<>>
    /\ metadata = <<>>
    /\ nextIndex = 0
    /\ calls = <<>>
    /\ task = [w \in Tasks |-> Idle]
    /\ workItems = <<>>
    /\ rpos = 0
    /\ out = <<>>
    /\ outDir = FALSE
    /\ begun = {} /\ ended = {}
    /\ ioIn = <<>> /\ ioCodec = NONE /\ ioStream = <<>> /\ ioOut = MetaFail
    /\ ioPc = "off"
    /\ ftIn = NoFooter /\ ftOut = ReadFooter(<<>>)
    /\ PoolOff
    /\ BuildOff

\* No call of getInstance is under observation.
GiOff ==
    /\ giInstance = [made |-> FALSE, threadCount |-> 0] /\ giMutex = 0
    /\ giBuilt = 0 /\ giCall = <<>>

RdOff ==
    /\ rdHeld = 0 /\ rdBits = {} /\ rdDevice = FALSE
    /\ rdCall = [op |-> "none", size |-> 0, held |-> 0, bits |-> {}, device |-> FALSE]
    /\ rdCount = 0 /\ rdErr = "none"

InitTr ==
    /\ OthersOff
    /\ RdOff
    /\ GiOff
    /\ trOutDir = FALSE
    /\ trFiles \in TrInputs
    /\ trCodec \in Codecs
    /\ trCreate \in BOOLEAN
    /\ trOpen \in BOOLEAN
    /\ trImage = <<>>
    /\ trDamage = "none"
    /\ trErr = "none"
    /\ trPc = "start"

\* An error caught and logged: the call goes on and returns.
RaiseLogged(err) == [pc |-> "done", err |-> "none"]

\* A std::runtime_error that nothing in the call catches.
Raise(err) == [pc |-> "failed", err |-> err]

\* compress: checkOpen(archive, outputFile, "Archive creation"), then the
\* pipeline up to writeMetadata.
TrCompress ==
    /\ trPc = "start"
    /\ IF ~trCreate
       THEN /\ trPc' = Raise("Archive creation").pc
            /\ trErr' = Raise("Archive creation").err
            /\ UNCHANGED trImage
       ELSE /\ trImage' = CompressImage(trCodec, trFiles)
            /\ trPc' = "compressed"
            /\ UNCHANGED trErr
    /\ UNCHANGED <<pipelineVars, ioVars, poolVars, buildVars, rdVars, giVars,
                   trFiles, trCodec, trCreate, trOpen, trDamage, trOutDir>>

\* The last byte of the archive file is removed.
TrTruncate ==
    /\ trPc = "compressed" /\ trDamage = "none"
    /\ trImage' = SubSeq(trImage, 1, Len(trImage) - 1)
    /\ trDamage' = "cut"
    /\ UNCHANGED <<pipelineVars, ioVars, poolVars, buildVars, rdVars, giVars,
                   trFiles, trCodec, trCreate, trOpen, trErr, trPc, trOutDir>>

\* The header of the archive file gets a value that names no codec.
TrForge ==
    /\ trPc = "compressed" /\ trDamage = "none"
    /\ \E id \in {NONE, NONE + 1} :
          trImage' = WritePODBytes(id) \o SubSeq(trImage, PodBytes + 1, Len(trImage))
    /\ trDamage' = "forged"
    /\ UNCHANGED <<pipelineVars, ioVars, poolVars, buildVars, rdVars, giVars,
                   trFiles, trCodec, trCreate, trOpen, trErr, trPc, trOutDir>>

\* A decompress that creates the output directory before it opens the
\* archive.
CreatesOutDirFirst(result) == TRUE

\* decompressFiles, the first callee that touches the output, begins with
\* std::filesystem::create_directories(outputDir).
CreatesOutDir(result) == result.pc = "done"

\* decompress: checkOpen, io::read of the header, io::readMetadata,
\* createCompressor; then decompressFiles and displayStats, which return.
TrDecompress ==
    /\ trPc = "compressed"
    /\ LET header == ReadPODBytes(trImage, 0)
           md == ReadMetadataBytes(trImage)
           result == IF ~trOpen THEN Raise("Archive reading")
                     ELSE IF ~header.ok \/ ~md.ok THEN Raise("Read")
                     ELSE IF ~createCompressor(Codecs, header.val).ok
                          THEN Raise("Unsupported compression type")
                     ELSE [pc |-> "done", err |-> "none"]
       IN  /\ trPc' = result.pc
           /\ trErr' = result.err
           /\ trOutDir' = CreatesOutDir(result)
    /\ UNCHANGED <<pipelineVars, ioVars, poolVars, buildVars, rdVars, giVars,
                   trFiles, trCodec, trCreate, trOpen, trImage, trDamage>>

NextTr == TrCompress \/ TrTruncate \/ TrForge \/ TrDecompress

SpecTr == InitTr /\ [][NextTr]_vars

(***************************************************************************)
(* The checked reads of IO.h on one input stream.                          *)
(***************************************************************************)
MaxHeld == 3

\* The state bits of a std::ios.
StateBits == {"eofbit", "failbit", "badbit"}

\* std::istream::read(s, n) on a stream that holds `held` bytes: a stream
\* that is not good() gets failbit and extracts nothing; a device error sets
\* badbit; the end of the stream before n bytes sets eofbit and failbit.
istreamRead(bits, held, n, device) ==
    IF bits # {} THEN [bits |-> bits \cup {"failbit"}, count |-> 0, held |-> held]
    ELSE IF device /\ n > 0 THEN [bits |-> {"badbit"}, count |-> 0, held |-> held]
    ELSE IF held < n THEN [bits |-> {"eofbit", "failbit"}, count |-> held, held |-> 0]
    ELSE [bits |-> {}, count |-> n, held |-> held - n]

\* checkErrors: stream.fail() is true when failbit or badbit is set.
checkErrors(bits) ==
    IF "failbit" \in bits \/ "badbit" \in bits
    THEN "formatting or extraction error"
    ELSE IF "badbit" \in bits THEN "unrecoverable stream error"
    ELSE "none"

\* checkReadSize
checkReadSize(expected, actual) ==
    IF actual # expected THEN "incomplete read" ELSE "none"

\* readBuffer, and read<T> with size = sizeof(T): stream.read, checkErrors,
\* checkReadSize.
readBuffer(bits, held, size, device) ==
    LET r == istreamRead(bits, held, size, device)
        e == checkErrors(r.bits)
    IN  [bits |-> r.bits, count |-> r.count, held |-> r.held,
         err |-> IF e # "none" THEN e ELSE checkReadSize(size, r.count),
         call |-> [size |-> size, held |-> held, bits |-> bits, device |-> device]]

TrOff ==
    /\ trFiles = <<>> /\ trCodec = NONE
    /\ trCreate = TRUE /\ trOpen = TRUE
    /\ trImage = <<>> /\ trDamage = "none" /\ trErr = "none" /\ trPc = "off"
    /\ trOutDir = FALSE

NoCall == [op |-> "none", size |-> 0, held |-> 0, bits |-> {}, device |-> FALSE]

InitRd ==
    /\ OthersOff
    /\ TrOff
    /\ GiOff
    /\ rdHeld \in 0..MaxHeld
    /\ rdBits \in SUBSET StateBits
    /\ rdDevice \in BOOLEAN
    /\ rdCall = NoCall
    /\ rdCount = 0
    /\ rdErr = "none"

\* what a read leaves behind; call is the read that ended the operation
Finish(op, r) ==
    /\ rdCall' = [op |-> op, size |-> r.call.size, held |-> r.call.held,
                  bits |-> r.call.bits, device |-> r.call.device]
    /\ rdBits' = r.bits
    /\ rdHeld' = r.held
    /\ rdCount' = r.count
    /\ rdErr' = r.err
    /\ rdDevice' = FALSE
    /\ UNCHANGED <<pipelineVars, ioVars, poolVars, buildVars, trVars, giVars>>

\* read<T>(stream, data)
ReadValue ==
    /\ rdCall.op = "none"
    /\ Finish("value", readBuffer(rdBits, rdHeld, PodBytes, rdDevice))

\* readBuffer(stream, data, size)
ReadBuffer ==
    /\ rdCall.op = "none"
    /\ \E size \in 0..(MaxHeld + 1) :
          Finish("buffer", readBuffer(rdBits, rdHeld, size, rdDevice))

\* read(stream, str): the length, str.resize(length), then the characters.
ReadStringCall ==
    /\ rdCall.op = "none"
    /\ LET n == readBuffer(rdBits, rdHeld, PodBytes, rdDevice)
       IN  IF n.err # "none" THEN Finish("string", n)
           ELSE \E length \in 0..MaxHeld :
                   Finish("string", readBuffer(n.bits, n.held, length, FALSE))

NextRd == ReadValue \/ ReadBuffer \/ ReadStringCall

SpecRd == InitRd /\ [][NextRd]_vars

(***************************************************************************)
(* ThreadPool::getInstance called by several threads.                      *)
(***************************************************************************)
MaxCallers == 2
MaxGets == 2

Callers == 1..MaxCallers

NoInstance == [made |-> FALSE, threadCount |-> 0]

InitGi ==
    /\ OthersOff
    /\ TrOff
    /\ RdOff
    /\ giInstance = NoInstance
    /\ giMutex = 0
    /\ giBuilt = 0
    /\ giCall = [c \in Callers |-> [pc |-> "idle", arg |-> 0, got |-> NoInstance, gets |-> 0]]

\* A thread calls getInstance(numThreads).
GiCallStart(c) ==
    /\ giCall[c].pc = "idle"
    /\ giCall[c].gets < MaxGets
    /\ \E n \in 0..MaxThreads :
          giCall' = [giCall EXCEPT ![c].pc = "lock", ![c].arg = n]
    /\ UNCHANGED <<pipelineVars, ioVars, poolVars, buildVars, trVars, rdVars,
                   giInstance, giMutex, giBuilt>>

\* A getInstance that does not wait for instanceMutex.
InstanceUnguarded == TRUE

InstanceFree == giMutex = 0

\* std::lock_guard<std::mutex> lock(instanceMutex); if (!instance)
GiLock(c) ==
    /\ giCall[c].pc = "lock"
    /\ InstanceFree
    /\ giMutex' = c
    /\ giCall' = [giCall EXCEPT ![c].pc = IF giInstance.made THEN "return" ELSE "make"]
    /\ UNCHANGED <<pipelineVars, ioVars, poolVars, buildVars, trVars, rdVars,
                   giInstance, giBuilt>>

\* instance.reset(new ThreadPool(numThreads))
GiMake(c) ==
    /\ giCall[c].pc = "make"
    /\ giInstance' = [made |-> TRUE, threadCount |-> giCall[c].arg]
    /\ giBuilt' = giBuilt + 1
    /\ giCall' = [giCall EXCEPT ![c].pc = "return"]
    /\ UNCHANGED <<pipelineVars, ioVars, poolVars, buildVars, trVars, rdVars, giMutex>>

\* return *instance; the lock_guard's scope ends.
GiReturn(c) ==
    /\ giCall[c].pc = "return"
    /\ giCall' = [giCall EXCEPT ![c].pc = "idle", ![c].got = giInstance,
                                ![c].gets = giCall[c].gets + 1]
    /\ giMutex' = 0
    /\ UNCHANGED <<pipelineVars, ioVars, poolVars, buildVars, trVars, rdVars,
                   giInstance, giBuilt>>

NextGi == \E c \in Callers : GiCallStart(c) \/ GiLock(c) \/ GiMake(c) \/ GiReturn(c)

SpecGi == InitGi /\ [][NextGi]_vars

(***************************************************************************)
(* compress on a directory from which files vanish after the hashing       *)
(* phase: std::filesystem::file_size throws for them.                      *)
(***************************************************************************)
InitU ==
    /\ fs \in [Paths -> Contents]
    /\ gone \in SUBSET Paths
    /\ compType \in Codecs
    /\ numThreads \in 1..MaxThreads
    /\ hw = numThreads + 1
    /\ pc = "start"
    /\ filePaths = <<>>
    /\ pathToHashMap = <<>>
    /\ hashToPathMap = <<>>
    /\ uniqueFiles = <<>>
    /\ duplicateFiles = <<>>
    /\ archive = <<>>
    /\ mutex = [m \in Mutexes |-> 0]
    /\ hashToOffsetMap = <<>>
    /\ metadata = <<>>
    /\ nextIndex = 0
    /\ calls = <<>>
    /\ task = [w \in Tasks |-> Idle]
    /\ workItems = <<>>
    /\ rpos = 0
    /\ out = <<>>
    /\ outDir = FALSE
    /\ begun = {} /\ ended = {}
    /\ ioIn = <<>> /\ ioCodec = NONE /\ ioStream = <<>> /\ ioOut = MetaFail
    /\ ioPc = "off"
    /\ ftIn = NoFooter /\ ftOut = ReadFooter(<<>>)
    /\ PoolOff
    /\ BuildOff
    /\ TrOff /\ RdOff /\ GiOff

\* processFiles, func of either phase: file_size(filePath) throws
\* std::filesystem::filesystem_error for a file that is not there any more.
FileSizeThrows(w) ==
    /\ \/ /\ pc = "unique" /\ task[w].pc = "u_begin"
          /\ uniqueFiles[task[w].index + 1] \in gone
       \/ /\ pc = "duplicates" /\ task[w].pc = "d_begin"
          /\ duplicateFiles[task[w].index + 1] \in gone
    /\ task' = Throw(w)
    /\ UNCHANGED <<inputVars, pc, hashVars, groupVars, writeVars, mutex, nextIndex,
                   calls, readVars, ioVars, poolVars, buildVars, auxVars>>

CompressTaskStep(w) ==
    \/ Fetch(w)
    \/ HashLock(w) \/ HashStore(w)
    \/ UniqueEmptyLock(w) \/ UniqueEmptyStore(w)
    \/ UniqueLock(w) \/ UniqueStream(w) \/ UniqueUnlock(w)
    \/ UniqueMetaLock(w) \/ UniqueMetaStore(w)
    \/ DuplicateLookup(w) \/ DuplicateLock(w) \/ DuplicateStore(w)
    \/ FileSizeThrows(w)

NextU ==
    \/ CompressStart \/ StartUnique \/ StartDuplicates \/ CompressFinish
    \/ \E w \in Tasks : CompressTaskStep(w)

SpecU == InitU /\ [][NextU]_vars

(***************************************************************************)
(* Properties.                                                             *)
(***************************************************************************)
\* the record compress made for the file p, as a sequence of 0 or more records
RecordsOf(p) == SelectSeq(metadata, LAMBDA m : m.relativePath = RelPath(p))

\* both parallel phases of processFiles have ended
PhasesDone ==
    \/ pc = "duplicates" /\ parallelForDone
    \/ pc \in {"compressed", "tampered", "extracting", "done", "failed"}

\* the records of the first phase and of the second phase
IsUniqueRecord(m) == \E i \in 1..Len(uniqueFiles) : RelPath(uniqueFiles[i]) = m.relativePath
IsDuplicateRecord(m) ==
    \E i \in 1..Len(duplicateFiles) : RelPath(duplicateFiles[i]) = m.relativePath

\* the payload region of a finished archive: the items after the header and
\* before the metadata section
PayloadEnd == ReadFooter(archive).metaOffset

\* the number of places of the payload region at which a frame of content
\* begins
FrameCount(content) ==
    LET frame == compressStream(content)
    IN  Cardinality({i \in 1..PayloadEnd - 1 :
                        /\ i + Len(frame) <= PayloadEnd
                        /\ SubSeq(archive, i + 1, i + Len(frame)) = frame})

\* C1: after compress followed by decompress every non-empty file of the
\* input tree exists in the output directory under its relative path, with
\* the same contents.
RoundTrip ==
    pc = "done" =>
        \A p \in Paths :
            fs[p] # <<>> =>
                /\ RelPath(p) \in DOMAIN out
                /\ out[RelPath(p)] = fs[p]

\* C2: for every content that files of the tree have, the payload region of
\* the archive holds exactly one frame of it, and after decompress every
\* file with that content is in the output directory.
Deduplication ==
    pc = "done" =>
        \A p \in Paths :
            /\ FrameCount(fs[p]) = 1
            /\ RelPath(p) \in DOMAIN out
            /\ out[RelPath(p)] = fs[p]

\* C3: after decompress has returned, no output file that was materialised
\* from a frame has a digest other than the digest of its record.
NoUnverifiedOutput ==
    pc = "done" =>
        \A i \in 1..Len(workItems) :
            \A k \in 1..Len(workItems[i].metaRefs) :
                LET m == workItems[i].metaRefs[k]
                IN  (m.originalSize # 0 /\ m.relativePath \in DOMAIN out) =>
                        computeSHA256(out[m.relativePath]) = m.hash

\* C4: an empty file of the tree is not scanned, not hashed, has no metadata
\* record and is not in the output directory.
EmptyFilesExcluded ==
    \A p \in Paths :
        fs[p] = <<>> =>
            /\ p \notin Range(filePaths)
            /\ RelPath(p) \notin DOMAIN pathToHashMap
            /\ RecordsOf(p) = <<>>
            /\ RelPath(p) \notin DOMAIN out

\* C5: in the metadata of a finished compress, the dataOffset of every
\* record of a duplicate file is the dataOffset of exactly one record of a
\* unique file, and that record has the same digest.
DuplicateLinkage ==
    PhasesDone =>
        \A i \in 1..Len(metadata) :
            IsDuplicateRecord(metadata[i]) =>
                LET O == {j \in 1..Len(metadata) :
                            /\ IsUniqueRecord(metadata[j])
                            /\ metadata[j].dataOffset = metadata[i].dataOffset}
                IN  /\ Cardinality(O) = 1
                    /\ \A j \in O : metadata[j].hash = metadata[i].hash

\* C6: at every moment of the first phase and after it, the archive items
\* [dataOffset, dataOffset + compressedSize) of every recorded unique file
\* are the frame of that file (no items for an empty file, which is not
\* streamed), and the extents of two recorded unique files do not overlap.
Extent(m) == {x \in 0..Len(archive) + 1 : m.dataOffset <= x /\ x < m.dataOffset + m.compressedSize}

OneRecordPerFile ==
    PhasesDone =>
        /\ Len(metadata) = Len(filePaths)
        /\ \A k \in 1..Len(filePaths) : Len(RecordsOf(filePaths[k])) = 1

\* C7 happens: two tasks have recorded, in two phases, a tree with two unique
\* files and a duplicate.
OneRecordPerFileSeen ==
    /\ numThreads = 2
    /\ pc = "duplicates" /\ parallelForDone
    /\ Len(uniqueFiles) = 2 /\ Len(duplicateFiles) >= 1
    /\ Len(metadata) = Len(filePaths)

\* the counts writeMetadata wrote at the head of the two parts of the
\* metadata section of a finished archive
WrittenOriginalCount == ReadPOD(archive, PayloadEnd).val
WrittenDuplicateCount ==
    ReadPOD(archive, ReadOriginals(archive, PayloadEnd + 1, WrittenOriginalCount, <<>>).pos).val

\* C8: in the archive compress has finished, the count of originals plus the
\* count of duplicates is the length of the metadata list, and the count of
\* originals is the number of records whose digest is not empty.
MetadataCounts ==
    pc = "compressed" =>
        /\ WrittenOriginalCount + WrittenDuplicateCount = Len(metadata)
        /\ WrittenOriginalCount =
              Cardinality({i \in 1..Len(metadata) : metadata[i].hash # <<>>})

\* C8 happens: the list written has records of unique files, of an empty
\* file and of a duplicate file.
MetadataCountsSeen ==
    /\ pc = "compressed"
    /\ \E i \in 1..Len(metadata) : metadata[i].compressedSize > 0
    /\ \E i \in 1..Len(metadata) :
          IsUniqueRecord(metadata[i]) /\ metadata[i].compressedSize = 0
    /\ \E i \in 1..Len(metadata) : IsDuplicateRecord(metadata[i])

\* C9: a record of compress is classified duplicate exactly when its digest
\* is empty and original otherwise; the record of a duplicate file is
\* classified duplicate, the record of a unique file original.
RecordClassification ==
    \A i \in 1..Len(metadata) :
        LET m == metadata[i]
        IN  /\ isDuplicate(m) <=> m.hash = <<>>
            /\ isOriginal(m) <=> m.hash # <<>>
            /\ IsDuplicateRecord(m) => isDuplicate(m)
            /\ IsUniqueRecord(m) => isOriginal(m)

\* C10: readMetadata on what writeMetadata wrote succeeds and returns the
\* codec id written and a list as long as the one written: first the
\* originals of the list in their order, every field unchanged, then its
\* duplicates in their order, relativePath unchanged.
MetadataRoundTrip ==
    ioPc = "read" =>
        LET originals == SelectSeq(ioIn, isOriginal)
            duplicates == SelectSeq(ioIn, isDuplicate)
            got == ioOut.metadata
        IN  /\ ioOut.ok
            /\ ioOut.compType = ioCodec
            /\ Len(got) = Len(ioIn)
            /\ Len(got) = Len(originals) + Len(duplicates)
            /\ \A i \in 1..Len(originals) :
                  /\ got[i].dataOffset = originals[i].dataOffset
                  /\ got[i].hash = originals[i].hash
                  /\ got[i].relativePath = originals[i].relativePath
            /\ \A k \in 1..Len(duplicates) :
                  got[Len(originals) + k].relativePath = duplicates[k].relativePath

\* C10 happens: a list with a duplicate before an original, of different
\* paths and digests, has been written behind a payload and read back.
MetadataRoundTripSeen ==
    /\ ioPc = "read"
    /\ ioStream # <<>>
    /\ Len(ioIn) = 2
    /\ isDuplicate(ioIn[1]) /\ isOriginal(ioIn[2])
    /\ ioIn[1].relativePath # ioIn[2].relativePath
    /\ ioIn[2].hash # <<>>
    /\ ioIn[2].hash # ioIn[2].relativePath
    /\ Len(ioOut.metadata) = 2

\* the items of the stream between the count of duplicates and the footer
DuplicateSection ==
    LET oc == ReadPOD(ioStream, ReadFooter(ioStream).metaOffset)
        os == ReadOriginals(ioStream, oc.pos, oc.val, <<>>)
    IN  SubSeq(ioStream, os.pos + 2, Len(ioStream) - FooterSize)

\* C11 as claimed: writeMetadata writes of every duplicate the dataOffset and
\* the relativePath and no digest, and readMetadata gives every duplicate
\* back with that dataOffset, that relativePath and an empty digest.
DuplicateShortForm ==
    ioPc = "read" =>
        LET originals == SelectSeq(ioIn, isOriginal)
            duplicates == SelectSeq(ioIn, isDuplicate)
            got == ioOut.metadata
        IN  /\ ioOut.ok
            /\ DuplicateSection =
                  Flatten([k \in 1..Len(duplicates) |->
                      <<duplicates[k].dataOffset, Len(duplicates[k].relativePath)>>
                          \o duplicates[k].relativePath])
            /\ \A k \in 1..Len(duplicates) :
                  got[Len(originals) + k] =
                      FileMeta(duplicates[k].dataOffset, <<>>, duplicates[k].relativePath)

\* C11 as amended: writeMetadata writes of every duplicate (dataOffset < 0)
\* the digest and the relativePath and no dataOffset, and readMetadata gives
\* every duplicate back with dataOffset -1, that digest and that
\* relativePath.
DuplicateDigestForm ==
    ioPc = "read" =>
        LET originals == SelectSeq(ioIn, isOriginal)
            duplicates == SelectSeq(ioIn, isDuplicate)
            got == ioOut.metadata
        IN  /\ ioOut.ok
            /\ DuplicateSection =
                  Flatten([k \in 1..Len(duplicates) |->
                      <<Len(duplicates[k].hash)>> \o duplicates[k].hash
                          \o <<Len(duplicates[k].relativePath)>>
                          \o duplicates[k].relativePath])
            /\ \A k \in 1..Len(duplicates) :
                  got[Len(originals) + k] =
                      FileMeta(-1, duplicates[k].hash, duplicates[k].relativePath)

\* C11 happens: a list with a duplicate of offset -2 and a digest, and
\* another duplicate without a digest, has been written and read back.
DuplicateDigestFormSeen ==
    /\ ioPc = "read"
    /\ Len(ioIn) = 2
    /\ ioIn[1].dataOffset = -2 /\ ioIn[1].hash # <<>>
    /\ ioIn[2].dataOffset = -1 /\ ioIn[2].hash = <<>>
    /\ Len(ioOut.metadata) = 2

\* C12: readFooter on a stream that ends with what writeFooter wrote for a
\* codec id, N_original, N_duplicate and metaOffset succeeds and returns the
\* codec id and the metaOffset, and the last items of the stream, as many as
\* there are fields, are those four values.
FooterRoundTrip ==
    ioPc = "f_read" =>
        /\ ftOut.ok
        /\ ftOut.compType = ftIn.compType
        /\ ftOut.metaOffset = ftIn.metaOffset
        /\ Len(ioStream) >= 4
        /\ SubSeq(ioStream, Len(ioStream) - 3, Len(ioStream)) =
              <<ftIn.compType, ftIn.uniqueCount, ftIn.duplicateCount, ftIn.metaOffset>>

\* C13: parallelFor never calls func twice with one index, and when its
\* wait on the tasks has returned func has been called once with every index
\* of the sequence.
ParallelForEachOnce ==
    /\ \A i \in DOMAIN calls : calls[i] <= 1
    /\ (pc \in {"hashing", "unique", "duplicates", "extracting"} /\ parallelForDone) =>
          \A i \in DOMAIN calls : calls[i] = 1

\* the frame of a group's original, as the archive now holds it, decodes to
\* the recorded size and digest
GroupDecodes(item) ==
    LET orig == originalMeta(item.metaRefs)
    IN  /\ orig # <<>>
        /\ LET r == decompressStream(HeaderRead.val, archive, orig[1].dataOffset)
           IN  /\ r.ok
               /\ Len(r.out) = orig[1].originalSize
               /\ computeSHA256(r.out) = item.hash

\* C14: after decompress, every file whose own extraction cannot fail (an
\* empty file, or a file whose frame decodes to its size and digest) has
\* been extracted, whatever happened to the other files.
FailureIsolation ==
    pc = "done" =>
        \A i \in 1..Len(workItems) :
            \A k \in 1..Len(workItems[i].metaRefs) :
                LET m == workItems[i].metaRefs[k]
                IN  (m.originalSize = 0 \/ GroupDecodes(workItems[i])) =>
                        /\ m.relativePath \in DOMAIN out
                        /\ computeSHA256(out[m.relativePath]) = m.hash

\* the relative paths of the files of the first and of the second phase
UniquePaths == {RelPath(uniqueFiles[i]) : i \in 1..Len(uniqueFiles)}
DuplicatePaths == {RelPath(duplicateFiles[i]) : i \in 1..Len(duplicateFiles)}

Blocked(w) == task[w].pc \notin {"none", "end"} /\ ~ENABLED TaskStep(w)

\* C16: in every state of compress and decompress a mutex is held only by a
\* task that is inside its critical section and can go on (so it will
\* release it), a task that cannot go on waits for a mutex another task
\* holds, and while a parallelFor has tasks that have not ended one of them
\* can take a step: no task waits forever.
DeadlockFreedom ==
    /\ \A m \in Mutexes :
          mutex[m] # 0 =>
              /\ task[mutex[m]].pc \notin {"none", "end", "fetch"}
              /\ ENABLED TaskStep(mutex[m])
    /\ \A w \in Tasks :
          Blocked(w) => \E m \in Mutexes : mutex[m] \notin {0, w}
    /\ ~parallelForDone => \E w \in Tasks : ENABLED TaskStep(w)

\* C16 happens: in decompress a task waits for archiveMutex while another
\* task is between its seek and the end of its decode.
DeadlockFreedomSeen ==
    /\ pc = "extracting"
    /\ \E w \in Tasks : Blocked(w)
    /\ \E v \in Tasks : task[v].pc = "x_decode"

\* C17: a step of a task that reads or writes the digest-to-offset index is
\* taken while the task holds hashOffsetMutex, and a step that reads or
\* writes the metadata vector while it holds metadataMutex.
GuardedSharedAccess ==
    [][\A w \in Tasks :
          task'[w] # task[w] =>
              /\ task[w].pc \in {"u_empty", "u_store", "d_begin"} =>
                    mutex["hashOffset"] = w
              /\ task[w].pc \in {"u_empty", "u_store", "d_store"} =>
                    mutex["metadata"] = w]_vars

\* C18: during decompress at most one task is between its seek and the end
\* of its decode; that task holds archiveMutex, and the position of the
\* archive stream is still the dataOffset it sought to, so its decode starts
\* there.
ReaderExclusion ==
    /\ Cardinality({w \in Tasks : task[w].pc = "x_decode"}) <= 1
    /\ \A w \in Tasks :
          task[w].pc = "x_decode" =>
              /\ mutex["archive"] = w
              /\ rpos = originalMeta(ItemOf(w).metaRefs)[1].dataOffset

\* C18 happens: a task is between seek and decode while another task is at
\* a record whose frame is at another offset and waits for archiveMutex.
ReaderExclusionSeen ==
    /\ pc = "extracting"
    /\ \E w, v \in Tasks :
          /\ task[w].pc = "x_decode"
          /\ task[v].pc = "x_item"
          /\ MetaOf(v).originalSize # 0
          /\ originalMeta(ItemOf(v).metaRefs)[1].dataOffset # rpos
          /\ ~ENABLED ExtractSeek(v)

\* C19: when enqueue, holding queueMutex, finds the stop flag set, the call
\* fails with the shutdown error and the task queue stays as it was; when it
\* finds the flag clear, the call does not fail and the job is appended to
\* the queue.
EnqueueRefusal ==
    [][caller.pc = "locked" /\ caller'.pc # "locked" =>
          IF stop
          THEN futures'[caller.job] = "refused" /\ tasks' = tasks
          ELSE /\ futures'[caller.job] = "queued"
               /\ tasks' = Append(tasks, caller.job)]_vars

\* C19 happens: one enqueue was accepted before shutdown began and a later
\* one was refused.
EnqueueRefusalSeen ==
    /\ stop
    /\ \E j, k \in Jobs : /\ futures[j] = "refused"
                          /\ futures[k] \in {"queued", "running", "ready"}

\* C20: once the destructor has set the stop flag and notified, no worker
\* is blocked in wait any more; a destructor that was called returns in the
\* end, and then the stop flag is set and every worker thread has exited.
PoolShutdown ==
    /\ [](dtor.pc \in {"notify", "join", "returned"} => stop)
    /\ [](dtor.pc \in {"join", "returned"} =>
              \A w \in Tasks : threads[w] # "sleeping")
    /\ [](dtor.pc = "returned" =>
              \A w \in 1..numThreads : threads[w] = "exited")
    /\ (dtor.pc = "lock" ~> dtor.pc = "returned")

\* C20 happens: every thread of a full pool was blocked waiting for work
\* when shutdown started, and is woken.
PoolShutdownSeen ==
    /\ numThreads = MaxThreads
    /\ dtor.pc = "join"
    /\ \A w \in Tasks : threads[w] = "woken"

\* C21: the pool made by default on a platform that reports hw hardware
\* threads has max(hw - 1, 1) worker threads, and a parallelFor over a
\* non-empty sequence has a worker task to run it.
DefaultPoolSize ==
    /\ pc # "nopool" => numThreads = (IF hw - 1 > 1 THEN hw - 1 ELSE 1)
    /\ pc = "hashing" /\ totalSize > 0 => \E w \in Tasks : task[w].pc # "none"

\* the digests of the scanned files
ScannedDigests == {computeSHA256(fs[p]) : p \in Range(filePaths)}

\* the scanned files with digest h that groupFiles put among the unique files
UniqueOfDigest(h) == {i \in 1..Len(uniqueFiles) : computeSHA256(fs[uniqueFiles[i]]) = h}

\* C22: once groupFiles has run, every scanned path is among the unique
\* files or among the duplicate files and not among both, each distinct
\* digest has exactly one path among the unique files, and every other path
\* with that digest is among the duplicates.
ClassificationPartition ==
    pc \notin {"start", "hashing"} =>
        /\ \A p \in Range(filePaths) :
              (p \in Range(uniqueFiles)) # (p \in Range(duplicateFiles))
        /\ Range(uniqueFiles) \cup Range(duplicateFiles) = Range(filePaths)
        /\ Len(uniqueFiles) + Len(duplicateFiles) = Len(filePaths)
        /\ \A h \in ScannedDigests : Cardinality(UniqueOfDigest(h)) = 1
        /\ Len(uniqueFiles) = Cardinality(ScannedDigests)

\* C22 happens: groupFiles has classified a tree in which two files share a
\* digest and a third has another, hashed by two tasks.
ClassificationPartitionSeen ==
    /\ numThreads = 2
    /\ pc = "unique"
    /\ Cardinality(ScannedDigests) = 2
    /\ Len(uniqueFiles) = 2 /\ Len(duplicateFiles) = 1

\* C23: the unique file of each digest is the first file with that digest in
\* scan order, whatever the interleaving of the hashing tasks.
ScanOrderOriginal ==
    pc \notin {"start", "hashing"} =>
        \A i \in 1..Len(uniqueFiles) :
            \A k \in 1..Len(filePaths) :
                computeSHA256(fs[filePaths[k]]) = computeSHA256(fs[uniqueFiles[i]])
                    => uniqueFiles[i] <= filePaths[k]

\* C24: a codec compiled into two builds has the same CompressionType value
\* in both, so the value one build writes for the codec it compressed with
\* makes that codec in every build that has it.
CodecIdStable ==
    /\ \A c \in wBuild \cap rBuild : EnumValue(wBuild, c) = EnumValue(rBuild, c)
    /\ bPc = "read" /\ bCodec \in rBuild => bMade = [ok |-> TRUE, codec |-> bCodec]

\* C25: in the reading build createCompressor fails for every value that is
\* not the value of a codec compiled into that build (NONE and the values
\* outside the enumeration among them), so decompress fails; a codec it
\* makes is the one the value names in that build.
UnsupportedCodec ==
    bPc \in {"read", "read_forged"} =>
        /\ (\A c \in rBuild : EnumValue(rBuild, c) # bId) => bMade = Unsupported
        /\ bMade.ok => bMade.codec \in rBuild /\ EnumValue(rBuild, bMade.codec) = bId

\* C25 happens: builds with a codec have refused NONE and a value outside
\* the enumeration.
UnsupportedCodecSeen ==
    /\ bPc = "read_forged"
    /\ rBuild # {}
    /\ bId >= NoneValue(rBuild)
    /\ bMade = Unsupported

\* C29: the scan returns every regular file under the root once and, with
\* skipEmpty at its default, leaves out exactly the files of size 0.
DirectoryScan ==
    pc # "start" =>
        /\ \A i, j \in 1..Len(filePaths) : filePaths[i] = filePaths[j] => i = j
        /\ Range(filePaths) = {p \in Paths : file_size(p) # 0}

\* C30: in a finished archive, decode started at the dataOffset of a record
\* that has payload returns normally and writes exactly the contents of that
\* record's file, whatever follows the frame in the archive.
DecodeOneFrameOnly ==
    pc = "compressed" =>
        \A i \in 1..Len(metadata) :
            metadata[i].compressedSize > 0 =>
                \A p \in Paths :
                    RelPath(p) = metadata[i].relativePath =>
                        decompressStream(compType, archive, metadata[i].dataOffset)
                            = [ok |-> TRUE, out |-> fs[p]]

\* C27: decompress of an archive that compress produced and that lost its
\* last byte ends with an error that leaves the call; it never returns as
\* after a success.
FooterTruncation ==
    (trDamage = "cut" /\ trPc \in {"done", "failed"}) => trPc = "failed"

\* the conditions under which decompress cannot go on
CannotDecompress ==
    \/ ~trOpen
    \/ ~ReadPODBytes(trImage, 0).ok
    \/ ~ReadMetadataBytes(trImage).ok
    \/ ReadPODBytes(trImage, 0).val \notin Codecs

\* C28: compress ends with the error "Archive creation" leaving the call
\* when the output archive cannot be created; decompress ends with an error
\* leaving the call when the archive cannot be opened, when the header, the
\* footer or the metadata cannot be read, or when the codec id names no
\* codec.  In none of these cases does the call return.
FatalErrors ==
    /\ (~trCreate /\ trPc # "start") => (trPc = "failed" /\ trErr = "Archive creation")
    /\ (trCreate /\ trPc \in {"done", "failed"} /\ CannotDecompress)
          => (trPc = "failed" /\ trErr # "none")

FatalErrorsSeen ==
    /\ trCreate /\ trOpen
    /\ trDamage = "forged"
    /\ ReadMetadataBytes(trImage).ok
    /\ trPc = "failed" /\ trErr = "Unsupported compression type"

\* the read was made on a good stream that held fewer bytes than it asked for
ShortRead ==
    /\ rdCall.op # "none"
    /\ rdCall.bits = {} /\ ~rdCall.device
    /\ rdCall.held < rdCall.size

\* the read was made on a stream in an I/O failure state, or the device
\* failed during the read
FailedStream ==
    /\ rdCall.op # "none"
    /\ ("badbit" \in rdCall.bits \/ (rdCall.device /\ rdCall.size > 0))

\* C26: a read of a fixed-width value, a string or a buffer from a stream
\* that holds fewer bytes than requested ends with the error "incomplete
\* read"; a read on a stream in an I/O failure state ends with the error
\* "unrecoverable stream error"; neither read returns normally.
ReadErrors ==
    /\ ShortRead => rdErr = "incomplete read"
    /\ FailedStream => rdErr = "unrecoverable stream error"
    /\ (ShortRead \/ FailedStream) => rdErr # "none"

\* Neither read returns normally.
ReadNeverReturns == (ShortRead \/ FailedStream) => rdErr # "none"

\* The two errors are never raised at all.
ReadErrorKinds ==
    rdErr \in {"none", "formatting or extraction error"}

\* the records decompress read, group by group
ReadRecords == Flatten([i \in 1..Len(workItems) |-> workItems[i].metaRefs])

\* the original of the group of digest h is absent, or its file is not in
\* the output directory
SourceMissing(h) ==
    \A i \in 1..Len(workItems) :
        workItems[i].hash = h =>
            LET orig == originalMeta(workItems[i].metaRefs)
            IN  orig = <<>> \/ orig[1].relativePath \notin DOMAIN out

\* a record without payload of a file that has a size
AliasRecord(m) == m.compressedSize = 0 /\ m.originalSize > 0

\* No duplicate whose original is missing has an output file.
MissingSourceNoOutput ==
    pc = "done" =>
        \A k \in 1..Len(ReadRecords) :
            (AliasRecord(ReadRecords[k]) /\ SourceMissing(ReadRecords[k].hash))
                => ReadRecords[k].relativePath \notin DOMAIN out

\* C31: when decompress has returned, no duplicate whose original is absent
\* or failed to materialise has an output file, and the processing of every
\* other record has begun.
MissingSourceSkipped ==
    pc = "done" =>
        \A k \in 1..Len(ReadRecords) :
            IF AliasRecord(ReadRecords[k]) /\ SourceMissing(ReadRecords[k].hash)
            THEN ReadRecords[k].relativePath \notin DOMAIN out
            ELSE ReadRecords[k].relativePath \in begun

\* C32: a job accepted by enqueue is run at most once and by one worker (no
\* two workers hold the same job, a job that a worker took is not in the
\* queue any more and is never taken again), jobs leave the queue in the
\* order in which they were appended, and a future becomes ready only in
\* the step in which the worker that took the job returns from it.
TaskRunsOnce ==
    /\ [](\A w, v \in Tasks : (w # v /\ running[w] # 0) => running[w] # running[v])
    /\ [](\A j \in Jobs : futures[j] \in {"running", "ready"} => j \notin Range(tasks))
    /\ [](\A i, k \in 1..Len(tasks) : i < k => tasks[i] < tasks[k])
    /\ [][\A j \in Jobs :
            /\ (futures'[j] = "running" /\ futures[j] # "running")
                  => (futures[j] = "queued" /\ tasks # <<>> /\ j = Head(tasks)
                        /\ tasks' = Tail(tasks))
            /\ (futures'[j] = "ready" /\ futures[j] # "ready")
                  => \E w \in Tasks : /\ threads[w] = "run" /\ running[w] = j
                                      /\ threads'[w] # "run"]_vars

\* C32 happens: a worker runs the first job while the second one, accepted
\* after it, waits in the queue.
TaskRunsOnceSeen ==
    /\ \E w \in Tasks : threads[w] = "run" /\ running[w] = 1
    /\ tasks = <<2>>

\* C33: on a pool with at least one worker, under fair scheduling and with
\* jobs that return, every job that enqueue put into the queue is taken by
\* a worker and run to its end.
NoLostWakeup ==
    \A j \in Jobs : (futures[j] = "queued") ~> (futures[j] = "ready")

\* C33 happens: a job is in the queue while every worker of the pool is
\* blocked in wait and enqueue has not notified yet.
NoLostWakeupSeen ==
    /\ tasks # <<>>
    /\ caller.pc = "notify"
    /\ \A w \in 1..numThreads : threads[w] = "sleeping"
    /\ ~stop

\* C34: a worker leaves its loop only in a step in which the stop flag is
\* set and the queue is empty; when every worker has left, no accepted job
\* is waiting or running, and none is accepted afterwards.
ShutdownDrains ==
    /\ [][\A w \in Tasks :
            (threads'[w] = "exited" /\ threads[w] # "exited")
                => (stop /\ tasks = <<>>)]_vars
    /\ []((\A w \in 1..numThreads : threads[w] = "exited")
             => /\ tasks = <<>>
                /\ \A j \in Jobs : futures[j] \notin {"queued", "running"})

\* C34 happens: shutdown has begun while a job is still in the queue, and a
\* worker is about to look at the queue.
ShutdownDrainsSeen ==
    /\ stop
    /\ tasks # <<>>
    /\ \E w \in Tasks : threads[w] = "wait"

\* C36: every parallelFor that was started returns: compress reaches the end
\* of its phases and decompressFiles, once started, returns to decompress,
\* also when func threw for some item.  A task whose loop has ended pulls no
\* further index, and the error never leaves parallelFor: the caller goes on
\* as after a return.
ParallelForTerminates ==
    /\ (pc = "hashing") ~> (pc = "compressed")
    /\ (pc = "extracting") ~> (pc = "done")
    /\ [][\A w \in Tasks :
            (task[w].pc = "end" /\ pc' = pc) => task'[w].pc = "end"]_vars
    /\ [][pc = "extracting" => pc' \in {"extracting", "done"}]_vars

\* C36 happens: parallelFor has returned to decompress although func threw
\* and left an index that no task ever pulled.
ParallelForTerminatesSeen ==
    /\ pc = "done"
    /\ \E i \in 1..Len(calls) : calls[i] = 0

\* C35: however the calls of getInstance interleave, at most one pool is
\* constructed, every call that has returned got that pool, and the pool
\* once made is never replaced nor its thread count changed, whatever
\* numThreads the later calls pass.
SingletonPool ==
    /\ [](giBuilt <= 1)
    /\ [](\A c \in Callers :
            giCall[c].gets > 0 => (giCall[c].got.made /\ giCall[c].got = giInstance))
    /\ [][giInstance.made => giInstance' = giInstance]_vars

\* C35 happens: two threads are inside getInstance at once, one has made the
\* pool, and a call with another numThreads has returned it.
SingletonPoolSeen ==
    /\ giInstance.made
    /\ \E c, d \in Callers :
          /\ c # d
          /\ giCall[c].pc = "lock"
          /\ giCall[d].gets > 0
          /\ giCall[d].arg # giInstance.threadCount

\* C38: when decompress has failed because the archive could not be opened,
\* the header, the footer or the metadata could not be read, or the codec
\* is unsupported, the output directory has not been created, and so no
\* output file has been written.
FatalLeavesNothing ==
    (trPc = "failed"
       /\ trErr \in {"Archive reading", "Read", "Unsupported compression type"})
        => ~trOutDir

\* C38 happens: decompress of a truncated archive has failed on reading the
\* footer or the metadata.
FatalLeavesNothingSeen ==
    /\ trPc = "failed" /\ trErr = "Read"
    /\ trDamage = "cut"
    /\ ~trOutDir

\* C37: from the end of the phase of the unique files to the writing of the
\* metadata no step changes the digest-to-offset index: no key is added
\* and no offset is changed, also when a unique file failed in the first
\* phase and left no entry for its digest.
IndexOnlyConsulted ==
    [][(pc = "duplicates" /\ pc' \in {"duplicates", "compressed"})
          => hashToOffsetMap' = hashToOffsetMap]_vars

\* C39: when decompress has returned, every file of the output directory
\* that was written from a codec frame (the file of a record with a size)
\* has the digest of its record: the output file of a decode that failed
\* is not there any more.
NoPartialOutput ==
    pc = "done" =>
        \A k \in 1..Len(ReadRecords) :
            (ReadRecords[k].originalSize # 0
               /\ ReadRecords[k].relativePath \in DOMAIN out)
                => computeSHA256(out[ReadRecords[k].relativePath]) = ReadRecords[k].hash

=============================================================================
